---- MODULE Spec2Model ----
(***************************************************************************)
(* grpc-interceptor: the server interceptor adapters (sync and asyncio),   *)
(* the exception-to-status translator built on them, and the call          *)
(* dispatch of the gRPC runtime they plug into, as one state machine that  *)
(* follows a single RPC from handler resolution to its final outcome.      *)
(***************************************************************************)
EXTENDS Naturals, Sequences, FiniteSets, TLC

\* Longest interceptor chain a server is built with.
MaxChain == 2
\* Most response items a streaming handler yields before it ends.
MaxItems == 2

None == "None"

(***************************************************************************)
(* grpc.StatusCode and the exception taxonomy of exceptions.py             *)
(***************************************************************************)
StatusCode ==
  {"OK", "CANCELLED", "UNKNOWN", "INVALID_ARGUMENT", "DEADLINE_EXCEEDED",
   "NOT_FOUND", "ALREADY_EXISTS", "PERMISSION_DENIED", "RESOURCE_EXHAUSTED",
   "FAILED_PRECONDITION", "ABORTED", "OUT_OF_RANGE", "UNIMPLEMENTED",
   "INTERNAL", "UNAVAILABLE", "DATA_LOSS", "UNAUTHENTICATED"}

\* Class-level status_code attribute of GrpcException and its subclasses.
ClassStatusCode ==
  [GrpcException      |-> "UNKNOWN",
   Aborted            |-> "ABORTED",
   AlreadyExists      |-> "ALREADY_EXISTS",
   Cancelled          |-> "CANCELLED",
   DataLoss           |-> "DATA_LOSS",
   DeadlineExceeded   |-> "DEADLINE_EXCEEDED",
   FailedPrecondition |-> "FAILED_PRECONDITION",
   InvalidArgument    |-> "INVALID_ARGUMENT",
   Internal           |-> "INTERNAL",
   OutOfRange         |-> "OUT_OF_RANGE",
   NotFound           |-> "NOT_FOUND",
   PermissionDenied   |-> "PERMISSION_DENIED",
   ResourceExhausted  |-> "RESOURCE_EXHAUSTED",
   Unauthenticated    |-> "UNAUTHENTICATED",
   Unavailable        |-> "UNAVAILABLE",
   Unimplemented      |-> "UNIMPLEMENTED",
   Unknown            |-> "UNKNOWN"]

\* Class-level details attribute of GrpcException and its subclasses.
ClassDetails ==
  [GrpcException      |-> "Unknown exception occurred",
   Aborted            |-> "The operation was aborted",
   AlreadyExists      |-> "The entity attempted to be created already exists",
   Cancelled          |-> "The operation was cancelled",
   DataLoss           |-> "There was unrecoverable data loss or corruption",
   DeadlineExceeded   |-> "Deadline expired before operation could complete",
   FailedPrecondition |-> "The operation was rejected because the system is not in a state required for execution",
   InvalidArgument    |-> "The client specified an invalid argument",
   Internal           |-> "Internal error",
   OutOfRange         |-> "The operation was attempted past the valid range",
   NotFound           |-> "The requested entity was not found",
   PermissionDenied   |-> "The caller does not have permission to execute the specified operation",
   ResourceExhausted  |-> "A resource has been exhausted",
   Unauthenticated    |-> "The request does not have valid authentication credentials for the operation",
   Unavailable        |-> "The service is currently unavailable",
   Unimplemented      |-> "The operation is not implemented or not supported/enabled in this service",
   Unknown            |-> "Unknown exception occurred"]

GrpcClasses == DOMAIN ClassStatusCode
\* The subclasses, one per status code.
ConcreteClasses == GrpcClasses \ {"GrpcException"}

\* The class name the tests derive from a status code name: each part
\* between underscores in title case.
snake_to_camel(s) ==
  CASE s = "CANCELLED" -> "Cancelled"
    [] s = "UNKNOWN" -> "Unknown"
    [] s = "INVALID_ARGUMENT" -> "InvalidArgument"
    [] s = "DEADLINE_EXCEEDED" -> "DeadlineExceeded"
    [] s = "NOT_FOUND" -> "NotFound"
    [] s = "ALREADY_EXISTS" -> "AlreadyExists"
    [] s = "PERMISSION_DENIED" -> "PermissionDenied"
    [] s = "RESOURCE_EXHAUSTED" -> "ResourceExhausted"
    [] s = "FAILED_PRECONDITION" -> "FailedPrecondition"
    [] s = "ABORTED" -> "Aborted"
    [] s = "OUT_OF_RANGE" -> "OutOfRange"
    [] s = "UNIMPLEMENTED" -> "Unimplemented"
    [] s = "INTERNAL" -> "Internal"
    [] s = "UNAVAILABLE" -> "Unavailable"
    [] s = "DATA_LOSS" -> "DataLoss"
    [] s = "UNAUTHENTICATED" -> "Unauthenticated"
    [] s = "OK" -> "Ok"

\* An exception object: its class, the GrpcException attributes (None on
\* any other class) and the constructor argument shown by repr().
NoEx == [cls |-> None, status_code |-> None, details |-> None, args |-> None]

\* Faulty __init__: an instance built without arguments takes the status
\* and details of the base class in place of those of its own class.
GrpcException_BaseDefaults(cls, details, status_code) ==
  IF status_code # None /\ status_code = "OK"
  THEN [raised |-> [NoEx EXCEPT !.cls = "ValueError",
                                !.args = "The status code for an exception cannot be OK"],
        self |-> NoEx]
  ELSE [raised |-> NoEx,
        self |-> [cls |-> cls,
                  status_code |-> IF status_code # None THEN status_code
                                  ELSE ClassStatusCode["GrpcException"],
                  details |-> IF details # None THEN details
                              ELSE ClassDetails["GrpcException"],
                  args |-> None]]

\* Faulty __init__: status_code is stored without the check for OK.
GrpcException_NoCheck(cls, details, status_code) ==
  [raised |-> NoEx,
   self |-> [cls |-> cls,
             status_code |-> IF status_code # None THEN status_code
                             ELSE ClassStatusCode[cls],
             details |-> IF details # None THEN details
                         ELSE ClassDetails[cls],
             args |-> None]]

\* GrpcException.__init__(details, status_code); raised is the ValueError
\* of a rejected construction, NoEx when the instance is built.
GrpcException(cls, details, status_code) ==
  IF status_code # None /\ status_code = "OK"
  THEN [raised |-> [NoEx EXCEPT !.cls = "ValueError",
                                !.args = "The status code for an exception cannot be OK"],
        self |-> NoEx]
  ELSE [raised |-> NoEx,
        self |-> [cls |-> cls,
                  status_code |-> IF status_code # None THEN status_code
                                  ELSE ClassStatusCode[cls],
                  details |-> IF details # None THEN details
                              ELSE ClassDetails[cls],
                  args |-> None]]

\* isinstance(ex, GrpcException)
IsGrpcException(ex) == ex.cls \in GrpcClasses

\* An exception that does not derive from GrpcException.
ValueError(arg) == [NoEx EXCEPT !.cls = "ValueError", !.args = arg]

\* The exception context.abort raises to unwind the call.
AbortError == [NoEx EXCEPT !.cls = "AbortError"]

\* repr(ex) of an exception that keeps Exception.__repr__.
Repr(ex) ==
  IF ex.args = None THEN ex.cls \o "()" ELSE ex.cls \o "('" \o ex.args \o "')"

(***************************************************************************)
(* The call context of the runtime (grpc.ServicerContext)                  *)
(***************************************************************************)
NewContext == [code |-> None, details |-> None]

\* context.abort(code, details): records the status on the context and
\* raises, so the statement after it in the caller is not reached.
abort(context, code, details) ==
  [context |-> [code |-> code, details |-> details], raised |-> AbortError]

(***************************************************************************)
(* Interceptors                                                            *)
(***************************************************************************)
NoInterceptor == [kind |-> None, _status_on_unknown_exception |-> None]

\* A user interceptor that counts calls and errors and delegates to method
\* (tests: CountingInterceptor, SideEffectInterceptor; the async variant
\* delegates as AsyncServerInterceptor.intercept documents).
CountingInterceptor ==
  [kind |-> "Counting", _status_on_unknown_exception |-> None]

\* Faulty __init__: the check of status_on_unknown_exception is missing.
ExceptionToStatusInterceptor_NoCheck(status_on_unknown_exception) ==
  [raised |-> NoEx,
   self |-> [kind |-> "ExceptionToStatus",
             _status_on_unknown_exception |-> status_on_unknown_exception]]

\* ExceptionToStatusInterceptor.__init__ and its async twin.
ExceptionToStatusInterceptor(status_on_unknown_exception) ==
  IF status_on_unknown_exception = "OK"
  THEN [raised |-> ValueError("The status code for unknown exceptions cannot be OK"),
        self |-> NoInterceptor]
  ELSE [raised |-> NoEx,
        self |-> [kind |-> "ExceptionToStatus",
                  _status_on_unknown_exception |-> status_on_unknown_exception]]

\* The values a server author passes as status_on_unknown_exception.
FallbackChoices == {None, "INTERNAL", "UNAVAILABLE", "OK"}

Interceptors ==
  {CountingInterceptor} \cup
  {ExceptionToStatusInterceptor(s).self :
     s \in {c \in FallbackChoices : ExceptionToStatusInterceptor(c).raised = NoEx}}

Chains == UNION {[1..n -> Interceptors] : n \in 0..MaxChain}

\* A user interceptor that rewrites the request and then delegates (tests:
\* UppercasingInterceptor, AsyncUppercasingInterceptor).
UppercasingInterceptor ==
  [kind |-> "Uppercasing", _status_on_unknown_exception |-> None]

\* A user interceptor whose intercept ends the call with context.abort and
\* never invokes method (tests: AbortingInterceptor, its async twin).
AbortingInterceptor(message) ==
  [kind |-> "Aborting", _status_on_unknown_exception |-> None,
   _message |-> message]

\* A user interceptor whose intercept is a generator function re-yielding
\* the items of method(...) (tests: ServerStreamingLoggingInterceptor and
\* its async twin, an async generator function).
ServerStreamingLoggingInterceptor ==
  [kind |-> "StreamingLogging", _status_on_unknown_exception |-> None]

\* Servers built from user-written interceptors, with or without a
\* translator among them.
UserInterceptors ==
  {CountingInterceptor, UppercasingInterceptor, AbortingInterceptor("oh no"),
   ServerStreamingLoggingInterceptor, ExceptionToStatusInterceptor("INTERNAL").self}

UserChains == UNION {[1..n -> UserInterceptors] : n \in 0..MaxChain}

\* str.upper() on the strings of the model.
Upper(s) ==
  CASE s = "foo" -> "FOO"
    [] s = "f" -> "F" [] s = "o" -> "O" [] s = "b" -> "B"
    [] s = "a" -> "A" [] s = "r" -> "R" [] s = "z" -> "Z"
    [] OTHER -> s

\* intercept of an interceptor from its first statement to the point where
\* it invokes method, or to its end when it never does: whether method is
\* invoked, the request it is invoked with, the context left and the
\* exception raised.
InterceptStart(self, request, context) ==
  CASE self.kind = "Aborting" ->
         LET r == abort(context, "ABORTED", self._message)
         IN  [invokes |-> FALSE, request |-> request,
              context |-> r.context, raised |-> r.raised]
    [] self.kind = "Uppercasing" ->
         [invokes |-> TRUE, request |-> Upper(request),
          context |-> context, raised |-> NoEx]
    [] OTHER ->
         [invokes |-> TRUE, request |-> request,
          context |-> context, raised |-> NoEx]

\* A statement that may raise, followed by `raise ex`: the raise is reached
\* only when the statement returned.
ThenRaise(r, ex) ==
  IF r.raised # NoEx THEN r ELSE [context |-> r.context, raised |-> ex]

\* Faulty handle_exception: the class default details are reported in
\* place of the instance's details.
handle_exception_ClassDetails(self, ex, context) ==
  IF IsGrpcException(ex)
  THEN ThenRaise(abort(context, ex.status_code, ClassDetails[ex.cls]), ex)
  ELSE IF context.code = None
       THEN IF self._status_on_unknown_exception # None
            THEN ThenRaise(abort(context, self._status_on_unknown_exception,
                                 Repr(ex)), ex)
            ELSE [context |-> context, raised |-> ex]
       ELSE [context |-> context, raised |-> ex]

\* Faulty handle_exception: the details of the fallback status are str(ex)
\* in place of repr(ex).
handle_exception_StrDetails(self, ex, context) ==
  IF IsGrpcException(ex)
  THEN ThenRaise(abort(context, ex.status_code, ex.details), ex)
  ELSE IF context.code = None
       THEN IF self._status_on_unknown_exception # None
            THEN ThenRaise(abort(context, self._status_on_unknown_exception,
                                 ex.args), ex)
            ELSE [context |-> context, raised |-> ex]
       ELSE [context |-> context, raised |-> ex]

\* Faulty handle_exception: the fallback status is set without looking at
\* context.code() first.
handle_exception_NoCodeCheck(self, ex, context) ==
  IF IsGrpcException(ex)
  THEN ThenRaise(abort(context, ex.status_code, ex.details), ex)
  ELSE IF self._status_on_unknown_exception # None
       THEN ThenRaise(abort(context, self._status_on_unknown_exception,
                            Repr(ex)), ex)
       ELSE [context |-> context, raised |-> ex]

\* Faulty handle_exception: without a configured fallback the status is
\* set to UNKNOWN by the translator itself.
handle_exception_DefaultUnknown(self, ex, context) ==
  IF IsGrpcException(ex)
  THEN ThenRaise(abort(context, ex.status_code, ex.details), ex)
  ELSE IF context.code = None
       THEN IF self._status_on_unknown_exception # None
            THEN ThenRaise(abort(context, self._status_on_unknown_exception,
                                 Repr(ex)), ex)
            ELSE ThenRaise(abort(context, "UNKNOWN", Repr(ex)), ex)
       ELSE [context |-> context, raised |-> ex]

\* hasattr(self, name): the instance attributes are the fields __init__
\* has set.
hasattr(self, name) == name \in DOMAIN self

\* Reading an attribute that was never set on the instance.
AttributeError(name) == [NoEx EXCEPT !.cls = "AttributeError", !.args = name]

\* ExceptionToStatusInterceptor.handle_exception (the async twin awaits the
\* same calls): the context it leaves and the exception that leaves it.
\* Faulty handle_exception: a GrpcException sets the status only if the
\* context has none yet.
handle_exception_GuardBoth(self, ex, context) ==
  IF context.code # None
  THEN [context |-> context, raised |-> ex]
  ELSE IF IsGrpcException(ex)
       THEN ThenRaise(abort(context, ex.status_code, ex.details), ex)
       ELSE IF self._status_on_unknown_exception # None
            THEN ThenRaise(abort(context, self._status_on_unknown_exception,
                                 Repr(ex)), ex)
            ELSE [context |-> context, raised |-> ex]

handle_exception(self, ex, context) ==
  IF IsGrpcException(ex)
  THEN ThenRaise(abort(context, ex.status_code, ex.details), ex)
  ELSE IF context.code = None    \* not context.code()
       THEN IF ~hasattr(self, "_status_on_unknown_exception")
            THEN [context |-> context,
                  raised |-> AttributeError("_status_on_unknown_exception")]
            ELSE IF self._status_on_unknown_exception # None
                 THEN ThenRaise(abort(context, self._status_on_unknown_exception,
                                      Repr(ex)), ex)
                 ELSE [context |-> context, raised |-> ex]
       ELSE [context |-> context, raised |-> ex]

\* An exception that does not derive from GrpcException, with the status
\* and details the extended translator reports for it (tests:
\* NonGrpcException).
NonGrpcException == [NoEx EXCEPT !.cls = "NonGrpcException"]
TEST_STATUS_CODE == "DATA_LOSS"
TEST_DETAILS == "Here's some custom details"

\* A subclass of the translator that overrides handle_exception (tests:
\* ExtendedExceptionToStatusInterceptor and its async twin); its __init__
\* sets caught_custom_exception and does not call the base __init__.
ExtendedExceptionToStatusInterceptor ==
  [kind |-> "ExceptionToStatus", caught_custom_exception |-> FALSE]

IsExtended(self) == hasattr(self, "caught_custom_exception")

\* ExtendedExceptionToStatusInterceptor.handle_exception: NonGrpcException
\* is handled here, everything else by super().handle_exception.
Extended_handle_exception(self, ex, context) ==
  IF ex.cls = "NonGrpcException"
  THEN LET r == abort(context, TEST_STATUS_CODE, TEST_DETAILS)
       IN  [context |-> r.context, raised |-> r.raised,
            self |-> [self EXCEPT !.caught_custom_exception = TRUE]]
  ELSE LET r == handle_exception(self, ex, context)
       IN  [context |-> r.context, raised |-> r.raised, self |-> self]

\* Faulty translator: the base handle_exception is called whatever the
\* class of the instance, so an override is never consulted.
self_handle_exception_Base(self, ex, context) ==
  LET r == handle_exception(self, ex, context)
  IN  [context |-> r.context, raised |-> r.raised, self |-> self]

\* self.handle_exception(...) as the translator calls it: the override of
\* the instance's class when it has one.
self_handle_exception(self, ex, context) ==
  IF IsExtended(self)
  THEN Extended_handle_exception(self, ex, context)
  ELSE LET r == handle_exception(self, ex, context)
       IN  [context |-> r.context, raised |-> r.raised, self |-> self]

(***************************************************************************)
(* The RPC handlers of the service and the calls made to it                *)
(***************************************************************************)
\* The response items a streaming handler yields, in order.
Letters == <<"f", "o", "b", "a", "r", "z">>

\* The characters of the handler's output for a request: the request's
\* own, in its case.
Output(request) ==
  IF request = Upper(request)
  THEN [k \in DOMAIN Letters |-> Upper(Letters[k])]
  ELSE Letters

\* How a handler ends: it returns, raises ex, or calls context.abort.
Return == [t |-> "return", ex |-> NoEx, code |-> None, details |-> None]
Raise(e) == [t |-> "raise", ex |-> e, code |-> None, details |-> None]
Abort(c, d) == [t |-> "abort", ex |-> NoEx, code |-> c, details |-> d]
\* context.set_code(c); context.set_details(d); raise e
SetStatusRaise(c, d, e) == [t |-> "set_status", ex |-> e, code |-> c, details |-> d]

\* The Python versions the project is tested on, and the latest of them.
PY_VERSIONS == {"3.9", "3.8", "3.7", "3.6.1"}
PY_LATEST == "3.9"

\* asyncio.CancelledError, raised in a task at the await it is suspended
\* at when the task is cancelled.
CancelledError == [NoEx EXCEPT !.cls = "CancelledError"]

\* The handler is suspended at an await when the runtime cancels the task
\* of the call (the client cancelled the RPC).
Cancellation == [t |-> "cancel", ex |-> NoEx, code |-> None, details |-> None]

RaisedExceptions ==
  {GrpcException("NotFound", None, None).self,
   GrpcException("NotFound", "custom", None).self,
   GrpcException("GrpcException", None, "DATA_LOSS").self,
   ValueError("oops")}

Ends ==
  {Return} \cup {Raise(e) : e \in RaisedExceptions}
           \cup {Abort("RESOURCE_EXHAUSTED", "resource exhausted")}

\* What the servicer is built to do with a request (the special_cases of
\* DummyService): every way of ending, or raising a default instance of
\* each class of the taxonomy.
DefaultInstances == {Raise(GrpcException(c, None, None).self) : c \in GrpcClasses}

NoCall ==
  [registered |-> FALSE, response_streaming |-> FALSE, method |-> None,
   request |-> None, n |-> 0, end |-> Return]

\* A call: the wire method path, the request, and what the registered
\* handler does with it (n items yielded, then end).
CallsOf(ends) ==
  {[registered |-> FALSE, response_streaming |-> FALSE,
    method |-> "/DummyService/Unimplemented", request |-> "foo",
    n |-> 0, end |-> Return]}
  \cup
  {[registered |-> TRUE, response_streaming |-> FALSE,
    method |-> "/DummyService/Execute", request |-> "foo",
    n |-> 0, end |-> e] : e \in ends}
  \cup
  {[registered |-> TRUE, response_streaming |-> TRUE,
    method |-> "/DummyService/ExecuteServerStream", request |-> "foo",
    n |-> k, end |-> e] : k \in 0..MaxItems, e \in ends}

Calls == CallsOf(Ends)

\* grpc.RpcMethodHandler as intercept_service sees it; level is the chain
\* position whose callable it holds (Len(chain)+1: the servicer method).
\* NoHandler is the None returned for a method that is not implemented.
NoHandler == [present |-> FALSE, response_streaming |-> FALSE, level |-> 0]

\* What travels between two frames of the call: a request going down, or a
\* response, a generator, an item, the end of a stream or an exception
\* coming back up.
Flight(t, val, ex) == [t |-> t, val |-> val, ex |-> ex]
NoFlight == Flight("none", None, NoEx)

\* A lazy response generator: the handler's own, a translator's
\* _generate_responses, the async adapter's invoke_intercept_method, or a
\* generator-style intercept; request is the request a generator function
\* was called with and has not used yet.
Gen(k, i) ==
  [k |-> k, i |-> i, started |-> FALSE, sent |-> 0, request |-> None]

VARIABLES
  aio,         \* the server is a grpc.aio server with async interceptors
  chain,       \* the interceptors the server was built with, in order
  call,        \* the call being served
  handlers,    \* handler returned so far at each level of the chain
  pc,          \* phase of the call
  pos,         \* chain level the control is at (0: the runtime)
  gpos,        \* generator layer the control is at (0: the runtime)
  flight,      \* value or exception passed between frames
  gens,        \* the nested response generators, outermost first
  ctx,         \* status code and details on the call context
  trace,       \* order of pre-processing, handler and post-processing
  num_calls,   \* per interceptor: intercept invocations
  num_errors,  \* per interceptor: exceptions seen where method was invoked
  delivered,   \* response items the runtime received, in order
  outcome,     \* what the runtime finally observed
  special_cases,   \* the ways of ending the servicer was built with
  received,        \* per interceptor: method_name of each intercept call
  handler_request, \* the request the servicer method was called with
  result,      \* the last call into the library outside an RPC
  python,      \* the Python version the process runs on
  client_interceptors, \* the interceptors the channel was built with
  servicer,    \* what the servicer behind the channel still has to do
  rpc,         \* the call the client is making
  issued,      \* the calls the client has made on the channel
  cpc,         \* phase of the client call
  cpos,        \* client chain level the control is at (0: the caller)
  cflight,     \* arguments or response passed between client frames
  frames,      \* locals of the interceptor frames of the client call
  ctrace,      \* order of the client-side steps of the call
  wire,        \* what the channel sent to the server, attempt by attempt
  reply,       \* what the caller's last call returned
  exceptions,  \* the GrpcException classes and the instances constructed
  inflight,    \* calls served concurrently through one interceptor chain
  harness      \* the server and channel of a dummy_channel block

vars == <<aio, chain, call, handlers, pc, pos, gpos, flight, gens, ctx, trace,
          num_calls, num_errors, delivered, outcome, special_cases, received,
          handler_request, result, python, client_interceptors, servicer,
          rpc, issued, cpc, cpos, cflight, frames, ctrace, wire, reply,
          exceptions, inflight, harness>>

otherVars == <<exceptions, inflight, harness>>

\* The attributes the GrpcException classes are defined with.
ClassAttrs ==
  [c \in GrpcClasses |->
     [status_code |-> ClassStatusCode[c], details |-> ClassDetails[c]]]

\* A process that constructed no exception outside a call, serves no
\* concurrent calls and has not entered dummy_channel.
NoOther ==
  /\ exceptions = [classes |-> ClassAttrs, instances |-> <<>>]
  /\ inflight = [cells |-> <<>>, calls |-> <<>>, log |-> <<>>]
  /\ harness = [pc |-> "none"]

clientVars == <<client_interceptors, servicer, rpc, issued, cpc, cpos, cflight,
               frames, ctrace, wire, reply>>

N == Len(chain)

\* The servicer behind the channel: a DummyService whose special_cases
\* map the inputs in `cases` to one CrashingService(num_crashes);
\* _num_crashes is what that CrashingService still has to raise.
ServicerWith(cases, num_crashes) ==
  [special_cases |-> cases, num_crashes |-> num_crashes,
   _num_crashes |-> num_crashes]

\* A process that has made no client call: no channel was built.
NoClient ==
  /\ client_interceptors = <<>>
  /\ servicer = ServicerWith({}, 0)
  /\ rpc = None
  /\ issued = <<>>
  /\ cpc = "idle"
  /\ cpos = 0
  /\ cflight = None
  /\ frames = <<>>
  /\ ctrace = <<>>
  /\ wire = <<>>
  /\ reply = None

\* No call into the library made yet.
NoResult == [op |-> None]

\* A server built with the interceptors cs over a servicer that can end
\* its methods in the ways sc, before its first call.
ServerOn(cs, sc, vs) ==
  /\ NoClient
  /\ NoOther
  /\ python \in vs
  /\ aio \in BOOLEAN
  /\ chain \in cs
  /\ special_cases = sc
  /\ received = [i \in 1..Len(chain) |-> <<>>]
  /\ handler_request = None
  /\ result = NoResult
  /\ call = NoCall
  /\ handlers = [l \in {} |-> NoHandler]
  /\ pc = "idle"
  /\ pos = 0
  /\ gpos = 0
  /\ flight = NoFlight
  /\ gens = <<>>
  /\ ctx = NewContext
  /\ trace = <<>>
  /\ num_calls = [i \in 1..Len(chain) |-> 0]
  /\ num_errors = [i \in 1..Len(chain) |-> 0]
  /\ delivered = <<>>
  /\ outcome = NoFlight

\* The same on the Python version the project is developed on.
Server(cs, sc) == ServerOn(cs, sc, {PY_LATEST})

Init == Server(Chains, Ends)

Streaming == call.response_streaming

(***************************************************************************)
(* Handler resolution: the runtime asks the chain for the handler          *)
(***************************************************************************)
\* A call arrives: the runtime starts resolving its handler through the
\* interceptors' intercept_service, outermost first.
\* A generator-style intercept returns a generator whatever the handler
\* returns, so a server built with one serves response-streaming methods.
Fits(c) ==
  /\ (c.registered /\ ~c.response_streaming) =>
       \A i \in 1..N : chain[i].kind # "StreamingLogging"
  /\ c.end.t = "cancel" => aio
  /\ c.end.t = "write" =>
       /\ aio /\ c.response_streaming
       /\ \A i \in 1..N : chain[i].kind # "StreamingLogging"

StartCall ==
  /\ pc = "idle"
  /\ \E c \in CallsOf(special_cases) : Fits(c) /\ call' = c
  /\ pc' = "resolve_down"
  /\ pos' = 1
  /\ UNCHANGED clientVars
  /\ UNCHANGED otherVars
  /\ UNCHANGED <<python, special_cases, result, received, handler_request>>
  /\ UNCHANGED <<aio, chain, handlers, gpos, flight, gens, ctx, trace,
                 num_calls, num_errors, delivered, outcome>>

\* intercept_service, first statement: continuation(handler_call_details)
\* enters the next interceptor's intercept_service.
InterceptServiceContinuation ==
  /\ pc = "resolve_down"
  /\ pos <= N
  /\ pos' = pos + 1
  /\ UNCHANGED clientVars
  /\ UNCHANGED otherVars
  /\ UNCHANGED <<python, special_cases, result, received, handler_request>>
  /\ UNCHANGED <<aio, chain, call, handlers, pc, gpos, flight, gens, ctx,
                 trace, num_calls, num_errors, delivered, outcome>>

\* The innermost continuation: the runtime looks the method up among the
\* registered handlers and finds none for an unregistered method.
Lookup ==
  /\ pc = "resolve_down"
  /\ pos = N + 1
  /\ handlers' = (N + 1) :>
       (IF call.registered
        THEN [present |-> TRUE, response_streaming |-> call.response_streaming,
              level |-> N + 1]
        ELSE NoHandler)
  /\ pc' = "resolve_up"
  /\ pos' = N
  /\ UNCHANGED clientVars
  /\ UNCHANGED otherVars
  /\ UNCHANGED <<python, special_cases, result, received, handler_request>>
  /\ UNCHANGED <<aio, chain, call, gpos, flight, gens, ctx, trace,
                 num_calls, num_errors, delivered, outcome>>

\* Faulty intercept_service: the check for a missing next handler is
\* dropped.
intercept_service_NoNoneCheck(i, next_handler) ==
  [present |-> TRUE, response_streaming |-> next_handler.response_streaming,
   level |-> i]

\* intercept_service after the continuation returned: no handler when
\* there is no next handler, else a handler of the same shape around
\* invoke_intercept_method of this interceptor.
intercept_service(i, next_handler) ==
  IF ~next_handler.present
  THEN NoHandler
  ELSE [present |-> TRUE,
        response_streaming |-> next_handler.response_streaming,
        level |-> i]

InterceptServiceReturn ==
  /\ pc = "resolve_up"
  /\ pos >= 1
  /\ handlers' = (pos :> intercept_service(pos, handlers[pos + 1])) @@ handlers
  /\ pos' = pos - 1
  /\ UNCHANGED clientVars
  /\ UNCHANGED otherVars
  /\ UNCHANGED <<python, special_cases, result, received, handler_request>>
  /\ UNCHANGED <<aio, chain, call, pc, gpos, flight, gens, ctx, trace,
                 num_calls, num_errors, delivered, outcome>>

\* The runtime has the resolved handler: without one the call ends with
\* UNIMPLEMENTED, else the handler is called with the request.
Dispatch ==
  /\ pc = "resolve_up"
  /\ pos = 0
  /\ IF ~handlers[1].present
     THEN /\ pc' = "done"
          /\ outcome' = Flight("unimplemented", None, NoEx)
          /\ UNCHANGED <<pos, flight>>
     ELSE /\ pc' = "call_down"
          /\ pos' = handlers[1].level
          /\ flight' = Flight("call", call.request, NoEx)
          /\ UNCHANGED outcome
  /\ UNCHANGED clientVars
  /\ UNCHANGED otherVars
  /\ UNCHANGED <<python, special_cases, result, received, handler_request>>
  /\ UNCHANGED <<aio, chain, call, handlers, gpos, gens, ctx, trace,
                 num_calls, num_errors, delivered>>

(***************************************************************************)
(* Invocation: the runtime calls the resolved handler                      *)
(***************************************************************************)
Event(e, i) == [e |-> e, i |-> i]

\* isinstance(ex, Exception), the test of `except Exception`: true of
\* every exception of the model but asyncio.CancelledError, which derives
\* from Exception up to Python 3.7 and from BaseException since 3.8.
IsException(ex) ==
  ex.cls = "CancelledError" => python \in {"3.6.1", "3.7"}

\* intercept of chain[i] up to the point where it invokes method: the
\* counting interceptor counts the call; the translator enters its try.
InterceptEnter(i) ==
  /\ trace' = Append(trace, Event("pre", i))
  /\ num_calls' = IF chain[i].kind = "Counting"
                  THEN [num_calls EXCEPT ![i] = @ + 1]
                  ELSE num_calls

\* Faulty adapter: an exception raised by self.intercept is caught and the
\* handler returns None.
invoke_intercept_method_Swallow(r) ==
  IF r.t = "exc" THEN Flight("val", None, NoEx) ELSE r

\* invoke_intercept_method hands the runtime (or the enclosing intercept)
\* what self.intercept returned or raised.
invoke_intercept_method(r) == r

\* Faulty adapter: self.intercept is called a second time with the same
\* arguments.
Invoked_Twice(i) ==
  received' = [received EXCEPT ![i] = Append(Append(@, call.method), call.method)]

\* invoke_intercept_method of chain[i] calls self.intercept with
\* method_name = handler_call_details.method.
Invoked(i) ==
  received' = [received EXCEPT ![i] = Append(@, call.method)]

\* Faulty adapter: the method it hands to intercept calls the next
\* handler with the request the adapter itself was called with.
next_handler_method_OwnRequest(request) == call.request

\* The method the adapter hands to intercept is next_handler_method
\* itself: the next handler is called with the request intercept passes.
next_handler_method(request) == request

\* intercept of chain[i] is a generator function: calling it runs none of
\* its body.
GeneratorStyle(i) == chain[i].kind = "StreamingLogging"

\* Faulty adapter: invoke_intercept_method calls next_handler_method
\* itself instead of self.intercept.
InvokeInterceptMethod_Bypass ==
  /\ pc = "call_down"
  /\ pos \in 1..N
  /\ ~(aio /\ Streaming)
  /\ pos' = pos + 1
  /\ UNCHANGED clientVars
  /\ UNCHANGED otherVars
  /\ UNCHANGED <<python, special_cases, result, received, handler_request>>
  /\ UNCHANGED <<aio, chain, call, handlers, pc, gpos, flight, gens, ctx,
                 trace, num_calls, num_errors, delivered, outcome>>

\* Sync adapter, and async adapter of a unary-response method:
\* invoke_intercept_method calls self.intercept, which runs up to
\* method(request_or_iterator, context) and enters the next handler.
InvokeInterceptMethod ==
  /\ pc = "call_down"
  /\ pos \in 1..N
  /\ ~(aio /\ Streaming)
  /\ Invoked(pos)
  /\ IF GeneratorStyle(pos)
     THEN /\ gens' = Append(gens, [Gen("intercept", pos) EXCEPT
                                     !.request = flight.val])
          /\ flight' = Flight("gen", None, NoEx)
          /\ pc' = "call_up"
          /\ pos' = pos - 1
          /\ UNCHANGED <<ctx, trace, num_calls>>
     ELSE LET s == InterceptStart(chain[pos], flight.val, ctx)
          IN  /\ InterceptEnter(pos)
              /\ ctx' = s.context
              /\ IF s.invokes
                 THEN /\ flight' = Flight("call", next_handler_method(s.request),
                                          NoEx)
                      /\ pos' = pos + 1
                      /\ UNCHANGED pc
                 ELSE /\ flight' = invoke_intercept_method(
                                     Flight("exc", None, s.raised))
                      /\ pc' = "call_up"
                      /\ pos' = pos - 1
              /\ UNCHANGED gens
  /\ UNCHANGED clientVars
  /\ UNCHANGED otherVars
  /\ UNCHANGED <<python, special_cases, result, handler_request>>
  /\ UNCHANGED <<aio, chain, call, handlers, gpos, num_errors, delivered,
                 outcome>>

\* Async adapter of a response-streaming method: invoke_intercept_method
\* is an async generator function, so calling it only creates the
\* generator; intercept runs when the generator is first iterated.
InvokeInterceptMethodAsyncGen ==
  /\ pc = "call_down"
  /\ pos \in 1..N
  /\ aio /\ Streaming
  /\ gens' = Append(gens, [Gen("adapter", pos) EXCEPT !.request = flight.val])
  /\ flight' = Flight("gen", None, NoEx)
  /\ pc' = "call_up"
  /\ pos' = pos - 1
  /\ UNCHANGED clientVars
  /\ UNCHANGED otherVars
  /\ UNCHANGED <<python, special_cases, result, received, handler_request>>
  /\ UNCHANGED <<aio, chain, call, handlers, gpos, ctx, trace, num_calls,
                 num_errors, delivered, outcome>>

\* What the body of the servicer method does when it ends: the value or
\* exception that leaves it and the context it leaves.
HandlerEnd(request, context) ==
  CASE call.end.t = "return" ->
         [context |-> context, out |-> Flight("val", request, NoEx)]
    [] call.end.t = "raise" ->
         [context |-> context, out |-> Flight("exc", None, call.end.ex)]
    [] call.end.t = "abort" ->
         LET r == abort(context, call.end.code, call.end.details)
         IN  [context |-> r.context, out |-> Flight("exc", None, r.raised)]
    [] call.end.t = "cancel" ->
         [context |-> context, out |-> Flight("exc", None, CancelledError)]
    [] call.end.t = "set_status" ->
         [context |-> [code |-> call.end.code, details |-> call.end.details],
          out |-> Flight("exc", None, call.end.ex)]
    [] call.end.t = "write" ->
         [context |-> context, out |-> Flight("val", None, NoEx)]

\* What a handler of the read/write API sends with `await context.write(...)`
\* before it returns: one response per character of the output.
Written(request) ==
  IF call.end.t = "write" THEN SubSeq(Output(request), 1, call.n) ELSE <<>>

\* The servicer method is called. A unary-response method runs to its end;
\* a response-streaming method is a generator function and only returns
\* its generator.
HandlerCall ==
  /\ pc = "call_down"
  /\ pos = N + 1
  /\ delivered' = delivered \o Written(flight.val)
  /\ IF Streaming /\ call.end.t # "write"
     THEN /\ gens' = Append(gens, [Gen("handler", N + 1) EXCEPT
                                     !.request = flight.val])
          /\ flight' = Flight("gen", None, NoEx)
          /\ trace' = Append(trace, Event("called", N + 1))
          /\ UNCHANGED ctx
     ELSE LET r == HandlerEnd(flight.val, ctx)
          IN  /\ flight' = r.out
              /\ ctx' = r.context
              /\ trace' = trace \o <<Event("called", N + 1), Event("body", N + 1)>>
              /\ UNCHANGED gens
  /\ handler_request' = flight.val
  /\ pc' = "call_up"
  /\ pos' = N
  /\ UNCHANGED clientVars
  /\ UNCHANGED otherVars
  /\ UNCHANGED <<python, special_cases, result, received>>
  /\ UNCHANGED <<aio, chain, call, handlers, gpos, num_calls, num_errors,
                 outcome>>

\* isinstance(response_or_iterator, Iterable) in the sync translator and
\* hasattr(response_or_iterator, "__aiter__") in the async one: true of a
\* response generator, false of a unary response, which is a protobuf
\* message (or the coroutine that produces one).
IsIterable(r) == r.t = "gen"
HasAiter(r) == r.t = "gen"

\* The generator method() just returned to intercept: the outermost of
\* those created since the frame now running was entered, by the runtime
\* (gpos = 0) or by the generator at gpos.
Returned == gpos + 1

\* _generate_responses(..., response_iterator) of chain[i] around the
\* generator method() returned.
GenerateResponses(i) ==
  SubSeq(gens, 1, Returned - 1) \o <<Gen("xlate", i)>>
    \o SubSeq(gens, Returned, Len(gens))

\* Faulty translator: after handle_exception the failure is dropped and
\* intercept returns normally.
InterceptResult_ReturnsAfterHandling(i, r, context) ==
  CASE chain[i].kind = "Counting" ->
         [out |-> r, context |-> context, gens |-> gens]
    [] chain[i].kind = "ExceptionToStatus" ->
         IF r.t = "exc" /\ IsException(r.ex)
         THEN LET h == self_handle_exception(chain[i], r.ex, context)
              IN  [out |-> Flight("val", None, NoEx),
                   context |-> h.context, gens |-> gens]
         ELSE IF (IF aio THEN HasAiter(r) ELSE IsIterable(r))
              THEN [out |-> r, context |-> context,
                    gens |-> GenerateResponses(i)]
              ELSE [out |-> r, context |-> context, gens |-> gens]

\* intercept of chain[i] from the point where method(...) came back, as a
\* value, a generator or an exception: what intercept passes on, the
\* context and the generator stack it leaves.
InterceptResult(i, r, context) ==
  CASE chain[i].kind = "ExceptionToStatus" ->
         IF r.t = "exc" /\ IsException(r.ex)
         THEN LET h == self_handle_exception(chain[i], r.ex, context)
              IN  [out |-> Flight("exc", None, h.raised),
                   context |-> h.context, gens |-> gens]
         ELSE IF (IF aio THEN HasAiter(r) ELSE IsIterable(r))
              THEN [out |-> r, context |-> context,
                    gens |-> GenerateResponses(i)]
              ELSE [out |-> r, context |-> context, gens |-> gens]
    [] OTHER ->
         \* Counting: try: return method(request, context)
         \*           except Exception: num_errors += 1; raise
         \* Uppercasing: return method(request, context)
         \* StreamingLogging: for resp in method(request, context): ...
         [out |-> r, context |-> context, gens |-> gens]

\* method(...) comes back into intercept of chain[pos]; intercept finishes
\* and invoke_intercept_method passes its result on. In the async
\* response-streaming adapter the result is the generator the adapter
\* goes on to iterate, and in a generator-style intercept it is the
\* generator its own loop goes on to iterate.
\* Faulty async adapter: the awaited value is iterated without the test
\* for None.
asyncgen_or_none_Unchecked(r) ==
  IF r.t = "val"
  THEN [t |-> "exc", val |-> None, ex |->
         [NoEx EXCEPT !.cls = "TypeError",
                      !.args = "'async for' requires an object with __aiter__"]]
  ELSE r

\* asyncgen_or_none = await coroutine_or_asyncgen in the async adapter's
\* generator: `if not asyncgen_or_none: return` ends the generator when
\* the coroutine gave None, and `async for` over any other value that is no
\* async iterable is a TypeError.
asyncgen_or_none(r) ==
  IF r.t = "val"
  THEN IF r.val = None
       THEN [t |-> "stop", val |-> None, ex |-> NoEx]
       ELSE [t |-> "exc", val |-> None, ex |->
              [NoEx EXCEPT !.cls = "TypeError",
                           !.args = "'async for' requires an object with __aiter__"]]
  ELSE r

InterceptReturn ==
  /\ pc = "call_up"
  /\ pos \in 1..N
  /\ LET r == InterceptResult(pos, flight, ctx)
         out == IF aio /\ Streaming /\ ~GeneratorStyle(pos)
                THEN asyncgen_or_none(invoke_intercept_method(r.out))
                ELSE invoke_intercept_method(r.out)
     IN  /\ ctx' = r.context
         /\ gens' = r.gens
         /\ chain' = IF /\ chain[pos].kind = "ExceptionToStatus"
                        /\ flight.t = "exc" /\ IsException(flight.ex)
                     THEN [chain EXCEPT ![pos] =
                             self_handle_exception(@, flight.ex, ctx).self]
                     ELSE chain
         /\ num_errors' = IF /\ chain[pos].kind = "Counting"
                             /\ flight.t = "exc" /\ IsException(flight.ex)
                          THEN [num_errors EXCEPT ![pos] = @ + 1]
                          ELSE num_errors
         /\ trace' = IF flight.t # "exc"
                     THEN Append(trace, Event("post", pos))
                     ELSE IF /\ chain[pos].kind = "ExceptionToStatus"
                             /\ IsException(flight.ex)
                          THEN Append(trace, Event("handle_exception", pos))
                          ELSE trace
         /\ IF (aio /\ Streaming) \/ GeneratorStyle(pos)
            THEN IF out.t \in {"exc", "stop"}
                 THEN /\ pc' = "pull_up"
                      /\ gpos' = gpos - 1
                      /\ flight' = out
                      /\ UNCHANGED pos
                 ELSE /\ pc' = "pull_down"
                      /\ gpos' = gpos + 1
                      /\ flight' = NoFlight
                      /\ UNCHANGED pos
            ELSE /\ pos' = pos - 1
                 /\ flight' = out
                 /\ UNCHANGED <<pc, gpos>>
  /\ UNCHANGED clientVars
  /\ UNCHANGED otherVars
  /\ UNCHANGED <<python, special_cases, result, received, handler_request>>
  /\ UNCHANGED <<aio, call, handlers, num_calls, delivered, outcome>>

\* The outermost handler returned to the runtime: a unary response ends
\* the call, an exception fails it, a generator is iterated.
RuntimeReceive ==
  /\ pc = "call_up"
  /\ pos = 0
  /\ IF flight.t = "gen"
     THEN /\ pc' = "pull_down"
          /\ gpos' = 1
          /\ flight' = NoFlight
          /\ UNCHANGED outcome
     ELSE /\ pc' = "done"
          /\ outcome' = flight
          /\ UNCHANGED <<gpos, flight>>
  /\ UNCHANGED clientVars
  /\ UNCHANGED otherVars
  /\ UNCHANGED <<python, special_cases, result, received, handler_request>>
  /\ UNCHANGED <<aio, chain, call, handlers, pos, gens, ctx, trace,
                 num_calls, num_errors, delivered>>

(***************************************************************************)
(* Iteration of a streaming response                                       *)
(***************************************************************************)
\* A started wrapper generator (_generate_responses, or the async
\* adapter's `async for r in asyncgen`) asks the generator it wraps for
\* the next item.
WrapperNext ==
  /\ pc = "pull_down"
  /\ gpos \in 1..Len(gens)
  /\ \/ gens[gpos].k = "xlate"
     \/ gens[gpos].k \in {"adapter", "intercept"} /\ gens[gpos].started
  /\ gens' = [gens EXCEPT ![gpos].started = TRUE]
  /\ gpos' = gpos + 1
  /\ UNCHANGED clientVars
  /\ UNCHANGED otherVars
  /\ UNCHANGED <<python, special_cases, result, received, handler_request>>
  /\ UNCHANGED <<aio, chain, call, handlers, pc, pos, flight, ctx, trace,
                 num_calls, num_errors, delivered, outcome>>

\* An exception of the interpreter, raised by a statement applied to an
\* object of the wrong kind.
TypeError(arg) == [NoEx EXCEPT !.cls = "TypeError", !.args = arg]

\* Faulty adapter: whatever self.intercept returned is awaited.
iscoroutine_Always(i) == TRUE

\* iscoroutine(coroutine_or_asyncgen) in the async adapter: calling an
\* `async def` intercept without yield gives a coroutine, calling one with
\* yield gives an async generator.
iscoroutine(i) == ~GeneratorStyle(i)

\* First iteration of the async adapter's generator: its body starts and
\* calls self.intercept. A coroutine is awaited and runs up to
\* method(request, context); an async generator is what the adapter's
\* `async for` goes on to iterate, and awaiting one is a TypeError. First
\* iteration of a generator-style intercept: its body starts and runs up
\* to method(request, context).
AdapterFirstNext ==
  /\ pc = "pull_down"
  /\ gpos \in 1..Len(gens)
  /\ gens[gpos].k \in {"adapter", "intercept"} /\ ~gens[gpos].started
  /\ IF gens[gpos].k = "adapter" THEN Invoked(gens[gpos].i)
                                 ELSE UNCHANGED received
  /\ IF gens[gpos].k = "adapter" /\ GeneratorStyle(gens[gpos].i)
     THEN IF iscoroutine(gens[gpos].i)
          THEN /\ gens' = [gens EXCEPT ![gpos].started = TRUE]
               /\ pc' = "pull_up"
               /\ gpos' = gpos - 1
               /\ flight' = Flight("exc", None, TypeError(
                    "object async_generator can't be used in 'await' expression"))
               /\ UNCHANGED <<pos, ctx, trace, num_calls>>
          ELSE /\ gens' = Append([gens EXCEPT ![gpos].started = TRUE],
                                 [Gen("intercept", gens[gpos].i) EXCEPT
                                    !.request = gens[gpos].request])
               /\ gpos' = gpos + 1
               /\ UNCHANGED <<pc, pos, flight, ctx, trace, num_calls>>
     ELSE LET s == InterceptStart(chain[gens[gpos].i], gens[gpos].request, ctx)
          IN  /\ gens' = [gens EXCEPT ![gpos].started = TRUE]
              /\ InterceptEnter(gens[gpos].i)
              /\ ctx' = s.context
              /\ IF s.invokes
                 THEN /\ pc' = "call_down"
                      /\ pos' = gens[gpos].i + 1
                      /\ flight' = Flight("call",
                                          next_handler_method(s.request), NoEx)
                      /\ UNCHANGED gpos
                 ELSE /\ pc' = "pull_up"
                      /\ gpos' = gpos - 1
                      /\ flight' = invoke_intercept_method(
                                     Flight("exc", None, s.raised))
                      /\ UNCHANGED pos
  /\ UNCHANGED clientVars
  /\ UNCHANGED otherVars
  /\ UNCHANGED <<python, special_cases, result, handler_request>>
  /\ UNCHANGED <<aio, chain, call, handlers, num_errors, delivered, outcome>>

\* The servicer method's generator is asked for its next item: it yields
\* the next of its n items, or ends as HandlerEnd says.
HandlerNext ==
  /\ pc = "pull_down"
  /\ gpos \in 1..Len(gens)
  /\ gens[gpos].k = "handler"
  /\ trace' = IF gens[gpos].started THEN trace
              ELSE Append(trace, Event("body", N + 1))
  /\ IF gens[gpos].sent < call.n
     THEN /\ flight' = Flight("item", Output(gens[gpos].request)[gens[gpos].sent + 1],
                             NoEx)
          /\ gens' = [gens EXCEPT ![gpos].started = TRUE, ![gpos].sent = @ + 1]
          /\ UNCHANGED ctx
     ELSE LET r == HandlerEnd(None, ctx)
          IN  /\ flight' = IF r.out.t = "val" THEN Flight("stop", None, NoEx)
                           ELSE r.out
              /\ ctx' = r.context
              /\ gens' = [gens EXCEPT ![gpos].started = TRUE]
  /\ pc' = "pull_up"
  /\ gpos' = gpos - 1
  /\ UNCHANGED clientVars
  /\ UNCHANGED otherVars
  /\ UNCHANGED <<python, special_cases, result, received, handler_request>>
  /\ UNCHANGED <<aio, chain, call, handlers, pos, num_calls, num_errors,
                 delivered, outcome>>

\* Faulty _generate_responses: it returns after the first item in place
\* of yielding all of them.
GeneratorResult_StopsEarly(g, r, context) ==
  IF g.k = "xlate" /\ r.t = "exc" /\ IsException(r.ex)
  THEN LET h == self_handle_exception(chain[g.i], r.ex, context)
       IN  [out |-> Flight("exc", None, h.raised), context |-> h.context]
  ELSE IF g.k = "xlate" /\ r.t = "item"
       THEN [out |-> Flight("stop", None, NoEx), context |-> context]
       ELSE [out |-> r, context |-> context]

\* Faulty _generate_responses: the responses are yielded outside the
\* exception handling, so a failure during iteration passes unhandled.
GeneratorResult_Unhandled(g, r, context) ==
  [out |-> r, context |-> context]

\* Faulty async adapter: a failure of the generator it iterates ends the
\* stream in place of reaching the consumer.
GeneratorResult_EndsOnFailure(g, r, context) ==
  IF g.k = "xlate" /\ r.t = "exc" /\ IsException(r.ex)
  THEN LET h == self_handle_exception(chain[g.i], r.ex, context)
       IN  [out |-> Flight("exc", None, h.raised), context |-> h.context]
  ELSE IF g.k = "adapter" /\ r.t = "exc"
       THEN [out |-> Flight("stop", None, NoEx), context |-> context]
       ELSE [out |-> r, context |-> context]

\* Faulty async twin: its _generate_responses iterates outside the try,
\* so on an asyncio server a failure during iteration passes unhandled.
GeneratorResult_AsyncUnhandled(g, r, context) ==
  IF ~aio /\ g.k = "xlate" /\ r.t = "exc" /\ IsException(r.ex)
  THEN LET h == self_handle_exception(chain[g.i], r.ex, context)
       IN  [out |-> Flight("exc", None, h.raised), context |-> h.context]
  ELSE [out |-> r, context |-> context]

\* What a wrapper generator passes outward when the generator it wraps
\* yields, ends or raises: _generate_responses sends an exception through
\* handle_exception; the async adapter re-yields and lets exceptions pass.
GeneratorResult(g, r, context) ==
  IF g.k = "xlate" /\ r.t = "exc" /\ IsException(r.ex)
  THEN LET h == self_handle_exception(chain[g.i], r.ex, context)
       IN  [out |-> Flight("exc", None, h.raised), context |-> h.context]
  ELSE [out |-> r, context |-> context]

WrapperYield ==
  /\ pc = "pull_up"
  /\ gpos \in 1..Len(gens)
  /\ LET r == GeneratorResult(gens[gpos], flight, ctx)
     IN  /\ flight' = r.out
         /\ ctx' = r.context
  /\ trace' = IF /\ gens[gpos].k = "xlate"
                 /\ flight.t = "exc" /\ IsException(flight.ex)
              THEN Append(trace, Event("handle_exception", gens[gpos].i))
              ELSE trace
  /\ chain' = IF /\ gens[gpos].k = "xlate"
                 /\ flight.t = "exc" /\ IsException(flight.ex)
              THEN [chain EXCEPT ![gens[gpos].i] =
                      self_handle_exception(@, flight.ex, ctx).self]
              ELSE chain
  /\ gpos' = gpos - 1
  /\ UNCHANGED clientVars
  /\ UNCHANGED otherVars
  /\ UNCHANGED <<python, special_cases, result, received, handler_request>>
  /\ UNCHANGED <<aio, call, handlers, pc, pos, gens, num_calls,
                 num_errors, delivered, outcome>>

\* The runtime, iterating the outermost generator: an item is sent to the
\* client and the next one requested, the end of the stream completes the
\* call, an exception fails it.
RuntimeNext ==
  /\ pc = "pull_up"
  /\ gpos = 0
  /\ IF flight.t = "item"
     THEN /\ delivered' = Append(delivered, flight.val)
          /\ pc' = "pull_down"
          /\ gpos' = 1
          /\ flight' = NoFlight
          /\ UNCHANGED outcome
     ELSE /\ pc' = "done"
          /\ outcome' = flight
          /\ UNCHANGED <<delivered, gpos, flight>>
  /\ UNCHANGED clientVars
  /\ UNCHANGED otherVars
  /\ UNCHANGED <<python, special_cases, result, received, handler_request>>
  /\ UNCHANGED <<aio, chain, call, handlers, pos, gens, ctx, trace,
                 num_calls, num_errors>>

Next ==
  \/ StartCall
  \/ InterceptServiceContinuation
  \/ Lookup
  \/ InterceptServiceReturn
  \/ Dispatch
  \/ InvokeInterceptMethod
  \/ InvokeInterceptMethodAsyncGen
  \/ HandlerCall
  \/ InterceptReturn
  \/ RuntimeReceive
  \/ WrapperNext
  \/ AdapterFirstNext
  \/ HandlerNext
  \/ WrapperYield
  \/ RuntimeNext

Spec == Init /\ [][Next]_vars

\* The same server built from user-written interceptors.
InitUser == Server(UserChains, Ends)
SpecUser == InitUser /\ [][Next]_vars

\* The server of test_all_exceptions: translators only, over a servicer
\* that raises a default instance of a class of the taxonomy.
TranslatorChains ==
  UNION {[1..n -> Interceptors \ {CountingInterceptor}] : n \in 1..MaxChain}
InitTaxonomy == Server(TranslatorChains, DefaultInstances)
SpecTaxonomy == InitTaxonomy /\ [][Next]_vars

\* Servers of translators over a servicer that may set a status on the
\* context before it raises.
StatusSettingEnds ==
  {Return, Raise(GrpcException("NotFound", "custom", None).self),
   SetStatusRaise("ABORTED", "set by the handler",
                  GrpcException("NotFound", None, None).self),
   SetStatusRaise("ABORTED", "set by the handler", ValueError("oops"))}
InitSetStatus == Server(TranslatorChains, StatusSettingEnds)
SpecSetStatus == InitSetStatus /\ [][Next]_vars

\* Servers whose translators may be of the extended subclass, over a
\* servicer that can also raise the exception the subclass knows.
ExtendedChains ==
  UNION {[1..n -> {CountingInterceptor, ExtendedExceptionToStatusInterceptor,
                   ExceptionToStatusInterceptor(None).self}] : n \in 0..MaxChain}
InitExtended == Server(ExtendedChains, Ends \cup {Raise(NonGrpcException)})
SpecExtended == InitExtended /\ [][Next]_vars

\* Servers built from translators with and without a fallback status and
\* interceptors that abort the call themselves.
StatusChains ==
  UNION {[1..n -> (Interceptors \ {CountingInterceptor})
                    \cup {AbortingInterceptor("oh no")}] : n \in 0..MaxChain}
InitStatus == Server(StatusChains, Ends)
SpecStatus == InitStatus /\ [][Next]_vars

\* An asyncio server on any of the tested Python versions, whose calls
\* the client may cancel while the handler is suspended.
\* Calls to a servicer of the read/write API beside the others: its
\* response-streaming methods are coroutines that write their responses
\* through the context and return None.
ReadWrite == [t |-> "write", ex |-> NoEx, code |-> None, details |-> None]
InitReadWrite == Server(Chains, Ends \cup {ReadWrite})
SpecReadWrite == InitReadWrite /\ [][Next]_vars

InitCancel ==
  /\ ServerOn(Chains, {Return, Raise(ValueError("oops")), Cancellation},
              PY_VERSIONS)
  /\ aio
SpecCancel == InitCancel /\ [][Next]_vars

(***************************************************************************)
(* The library called outside an RPC: constructors, handle_exception and   *)
(* parse_method_name, each applied once to an input                        *)
(***************************************************************************)
\* Longest method path handed to parse_method_name.
MaxLen == 7

\* A str is the sequence of its characters.
Alphabet == {"/", ".", "a", "b"}
Paths == UNION {[1..n -> Alphabet] : n \in 0..MaxLen}

\* Index of the first and of the last occurrence of character c in s.
Find(s, c) == CHOOSE k \in 1..Len(s) : s[k] = c /\ \A j \in 1..(k - 1) : s[j] # c
RFind(s, c) == CHOOSE k \in 1..Len(s) : s[k] = c /\ \A j \in (k + 1)..Len(s) : s[j] # c
Contains(s, c) == \E k \in 1..Len(s) : s[k] = c

\* s.split(sep): s cut at every occurrence of sep.
RECURSIVE split(_, _)
split(s, sep) ==
  IF ~Contains(s, sep) THEN <<s>>
  ELSE <<SubSeq(s, 1, Find(s, sep) - 1)>>
         \o split(SubSeq(s, Find(s, sep) + 1, Len(s)), sep)

\* s.split(sep) of the faulty variants below: cut at the first dot only.
split1(s, sep) ==
  IF ~Contains(s, sep) THEN <<s>>
  ELSE <<SubSeq(s, 1, Find(s, sep) - 1), SubSeq(s, Find(s, sep) + 1, Len(s))>>

\* s.rsplit(sep, maxsplit=1): s cut at the last occurrence of sep.
rsplit(s, sep) ==
  IF ~Contains(s, sep) THEN <<s>>
  ELSE <<SubSeq(s, 1, RFind(s, sep) - 1), SubSeq(s, RFind(s, sep) + 1, Len(s))>>

\* MethodName.__init__
MethodName(package, service, method) ==
  [package |-> package, service |-> service, method |-> method]
NoMethodName == MethodName(None, None, None)

\* MethodName.fully_qualified_service
fully_qualified_service(self) ==
  IF self.package # <<>> THEN self.package \o <<".">> \o self.service
  ELSE self.service

\* The ValueError of a tuple assignment whose right side has not exactly
\* the three values of its left side.
UnpackError(parts) ==
  ValueError(IF Len(parts) < 3 THEN "not enough values to unpack"
             ELSE "too many values to unpack")

\* s.split(sep, maxsplit=n) of the faulty variant below: s cut at its
\* first n occurrences of sep.
RECURSIVE splitn(_, _, _)
splitn(s, sep, n) ==
  IF n = 0 \/ ~Contains(s, sep) THEN <<s>>
  ELSE <<SubSeq(s, 1, Find(s, sep) - 1)>>
         \o splitn(SubSeq(s, Find(s, sep) + 1, Len(s)), sep, n - 1)

\* Faulty parse_method_name: the path is cut at its first two slashes
\* only.
parse_method_name_MaxSplit(method_name) ==
  LET parts == splitn(method_name, "/", 2)
  IN  IF Len(parts) # 3
      THEN [raised |-> UnpackError(parts), value |-> NoMethodName]
      ELSE LET r == rsplit(parts[2], ".")
               maybe_package == SubSeq(r, 1, Len(r) - 1)
               package == IF maybe_package # <<>> THEN maybe_package[1] ELSE <<>>
           IN  [raised |-> NoEx,
                value |-> MethodName(package, r[Len(r)], parts[3])]

\* Faulty parse_method_name: package and service are cut at the first dot.
parse_method_name_FirstDot(method_name) ==
  LET parts == split(method_name, "/")
  IN  IF Len(parts) # 3
      THEN [raised |-> UnpackError(parts), value |-> NoMethodName]
      ELSE LET r == split1(parts[2], ".")
               package == IF Len(r) > 1 THEN r[1] ELSE <<>>
           IN  [raised |-> NoEx,
                value |-> MethodName(package, r[Len(r)], parts[3])]

\* Faulty parse_method_name: a path without the leading part is read as
\* service and method.
parse_method_name_Lenient(method_name) ==
  LET parts == split(method_name, "/")
  IN  IF Len(parts) \notin {2, 3}
      THEN [raised |-> UnpackError(parts), value |-> NoMethodName]
      ELSE LET r == rsplit(parts[Len(parts) - 1], ".")
               maybe_package == SubSeq(r, 1, Len(r) - 1)
               package == IF maybe_package # <<>> THEN maybe_package[1] ELSE <<>>
           IN  [raised |-> NoEx,
                value |-> MethodName(package, r[Len(r)], parts[Len(parts)])]

\* parse_method_name
parse_method_name(method_name) ==
  LET parts == split(method_name, "/")
  IN  \* _, package_and_service, method = method_name.split("/")
      IF Len(parts) # 3
      THEN [raised |-> UnpackError(parts), value |-> NoMethodName]
      ELSE LET package_and_service == parts[2]
               method == parts[3]
               \* *maybe_package, service = package_and_service.rsplit(".", 1)
               r == rsplit(package_and_service, ".")
               service == r[Len(r)]
               maybe_package == SubSeq(r, 1, Len(r) - 1)
               package == IF maybe_package # <<>> THEN maybe_package[1] ELSE <<>>
           IN  [raised |-> NoEx, value |-> MethodName(package, service, method)]

\* The arguments the library is called with.
GrpcExceptionArgs ==
  [op : {"GrpcException"}, cls : GrpcClasses, details : {None, "custom"},
   status_code : {None} \cup StatusCode]
InterceptorArgs ==
  [op : {"ExceptionToStatusInterceptor"}, aio : BOOLEAN,
   status_on_unknown_exception : {None} \cup StatusCode]
\* The translators and exceptions that were constructed, and the contexts a
\* handler leaves.
Translators ==
  {ExceptionToStatusInterceptor(a.status_on_unknown_exception).self :
     a \in {b \in InterceptorArgs :
              ExceptionToStatusInterceptor(b.status_on_unknown_exception).raised = NoEx}}
Exceptions ==
  {GrpcException(a.cls, a.details, a.status_code).self :
     a \in {b \in GrpcExceptionArgs :
              GrpcException(b.cls, b.details, b.status_code).raised = NoEx}}
  \cup {ValueError("oops")}
HandleExceptionArgs ==
  [op : {"handle_exception"}, self : Translators, ex : Exceptions,
   context : {NewContext,
              [code |-> "RESOURCE_EXHAUSTED", details |-> "resource exhausted"]}]
ParseArgs == [op : {"parse_method_name"}, method_name : Paths]

Pending(args) == [op |-> args.op, args |-> args, returned |-> FALSE]
Done(args, raised, value) ==
  [op |-> args.op, args |-> args, returned |-> TRUE, raised |-> raised,
   value |-> value]

InitLib ==
  /\ NoClient
  /\ NoOther
  /\ aio = FALSE
  /\ chain = <<>>
  /\ special_cases = {}
  /\ python = PY_LATEST
  /\ received = <<>>
  /\ handler_request = None
  /\ call = NoCall
  /\ handlers = [l \in {} |-> NoHandler]
  /\ pc = "library"
  /\ pos = 0
  /\ gpos = 0
  /\ flight = NoFlight
  /\ gens = <<>>
  /\ ctx = NewContext
  /\ trace = <<>>
  /\ num_calls = <<>>
  /\ num_errors = <<>>
  /\ delivered = <<>>
  /\ outcome = NoFlight
  /\ \E a \in GrpcExceptionArgs \cup InterceptorArgs \cup HandleExceptionArgs
              \cup ParseArgs : result = Pending(a)

serverVars == <<aio, chain, call, handlers, pc, pos, gpos, flight, gens, ctx,
             trace, num_calls, num_errors, delivered, outcome, special_cases,
             received, handler_request, python, client_interceptors,
             servicer, rpc, issued, cpc, cpos, cflight, frames, ctrace, wire,
             reply>>

\* GrpcException(details, status_code) or one of its subclasses is called.
ConstructGrpcException ==
  /\ result.op = "GrpcException" /\ ~result.returned
  /\ LET a == result.args
         r == GrpcException(a.cls, a.details, a.status_code)
     IN  result' = Done(a, r.raised, r.self)
  /\ UNCHANGED serverVars
  /\ UNCHANGED otherVars

\* ExceptionToStatusInterceptor(status_on_unknown_exception) or its async
\* twin is called.
ConstructInterceptor ==
  /\ result.op = "ExceptionToStatusInterceptor" /\ ~result.returned
  /\ LET a == result.args
         r == ExceptionToStatusInterceptor(a.status_on_unknown_exception)
     IN  result' = Done(a, r.raised, r.self)
  /\ UNCHANGED serverVars
  /\ UNCHANGED otherVars

\* handle_exception of a constructed translator is called with an
\* exception and a context.
HandleException ==
  /\ result.op = "handle_exception" /\ ~result.returned
  /\ LET a == result.args
         r == handle_exception(a.self, a.ex, a.context)
     IN  result' = Done(a, r.raised, r.context)
  /\ UNCHANGED serverVars
  /\ UNCHANGED otherVars

\* parse_method_name(method_name) is called and fully_qualified_service
\* of the MethodName it returns is read.
ParseMethodName ==
  /\ result.op = "parse_method_name" /\ ~result.returned
  /\ LET a == result.args
         r == parse_method_name(a.method_name)
     IN  result' = Done(a, r.raised,
                             IF r.raised = NoEx
                             THEN [name |-> r.value,
                                   fully_qualified_service |->
                                     fully_qualified_service(r.value)]
                             ELSE [name |-> r.value,
                                   fully_qualified_service |-> None])
  /\ UNCHANGED serverVars
  /\ UNCHANGED otherVars

NextLib ==
  \/ ConstructGrpcException
  \/ ConstructInterceptor
  \/ HandleException
  \/ ParseMethodName

SpecLib == InitLib /\ [][NextLib]_vars

(***************************************************************************)
(* The client side: ClientInterceptor and the channel it is installed on   *)
(***************************************************************************)
\* Most messages in a request stream.
MaxRequests == 2

\* The input strings of the requests a client sends.
Inputs == {"foo", "bar"}

\* A request or response object: a protobuf message (depth 0, items the
\* one string it carries), an iterator of messages (depth 1, items the
\* strings of the messages it yields), or an iterator whose only item is
\* an iterator of messages (depth 2).
Message(str) == [depth |-> 0, items |-> <<str>>]
Iterator(strs) == [depth |-> 1, items |-> strs]

\* iter((x,)): an iterator over the one-element tuple holding x.
iter_tuple(x) == [depth |-> x.depth + 1, items |-> x.items]

\* What next(it) leaves in place of an item when it raises StopIteration.
StopIteration == [depth |-> 0, items |-> <<>>]

\* Faulty next: the last item of the iterator in place of the first.
next_Last(it) ==
  IF it.depth = 1
  THEN IF it.items = <<>> THEN StopIteration
       ELSE Message(it.items[Len(it.items)])
  ELSE [depth |-> it.depth - 1, items |-> it.items]

\* Faulty next: StopIteration whatever the iterator holds.
next_Exhausted(it) == StopIteration

\* next(it) on an iterator that has not been advanced yet: its first item,
\* or StopIteration raised if it has none.
next(it) ==
  IF it.depth = 1
  THEN IF it.items = <<>> THEN StopIteration ELSE Message(Head(it.items))
  ELSE [depth |-> it.depth - 1, items |-> it.items]

\* ClientCallDetails(method, metadata=...).
ClientCallDetails(method, metadata) == [method |-> method, metadata |-> metadata]

\* The four call shapes, as the booleans intercept is given.
Shapes == [request_streaming : BOOLEAN, response_streaming : BOOLEAN]

\* The stub method of DummyServiceStub for a shape.
StubMethod(shape) ==
  IF shape.request_streaming
  THEN IF shape.response_streaming THEN "/DummyService/ExecuteClientServerStream"
       ELSE "/DummyService/ExecuteClientStream"
  ELSE IF shape.response_streaming THEN "/DummyService/ExecuteServerStream"
       ELSE "/DummyService/Execute"

\* What a caller passes to the stub method of a shape: one message, or an
\* iterator of messages.
RequestsOf(shape) ==
  IF shape.request_streaming
  THEN {Iterator(strs) : strs \in UNION {[1..n -> Inputs] : n \in 0..MaxRequests}}
  ELSE {Message(str) : str \in Inputs}

\* Interceptors written against intercept(call_details, request_iterator,
\* request_streaming, response_streaming): one that returns its inputs and
\* no callback (the body of the base method), one that replaces the
\* metadata, one that replaces the request messages, and one that returns
\* a callback marking the response with its name.
ReturningInterceptor == [kind |-> "Returning", _metadata |-> <<>>, _name |-> None]
MetadataInterceptor(metadata) ==
  [kind |-> "Metadata", _metadata |-> metadata, _name |-> None]
ReplacingInterceptor == [kind |-> "Replacing", _metadata |-> <<>>, _name |-> None]
PostprocessingInterceptor(name) ==
  [kind |-> "Postprocessing", _metadata |-> <<>>, _name |-> name]

\* Two more: one that returns an iterator without items together with a
\* callback, and one that returns the request messages followed by one more.
EmptyingInterceptor == [kind |-> "Emptying", _metadata |-> <<>>, _name |-> "e"]
AppendingInterceptor == [kind |-> "Appending", _metadata |-> <<>>, _name |-> None]

ClientInterceptors ==
  {ReturningInterceptor, MetadataInterceptor(<<"this_key:this_value">>),
   ReplacingInterceptor, PostprocessingInterceptor("p"),
   PostprocessingInterceptor("q")}
ClientChains == UNION {[1..n -> ClientInterceptors] : n \in 0..MaxChain}

\* self.intercept(call_details, request_iterator, request_streaming,
\* response_streaming): the tuple it returns.
intercept(self, call_details, request_iterator, request_streaming, response_streaming) ==
  CASE self.kind = "Metadata" ->
         [call_details |-> [call_details EXCEPT !.metadata = self._metadata],
          request_iterator |-> request_iterator, postprocess |-> None]
    [] self.kind = "Replacing" ->
         [call_details |-> call_details,
          request_iterator |-> Iterator(<<"replaced">>), postprocess |-> None]
    [] self.kind = "Postprocessing" ->
         [call_details |-> call_details,
          request_iterator |-> request_iterator, postprocess |-> self._name]
    [] self.kind = "Emptying" ->
         [call_details |-> call_details,
          request_iterator |-> Iterator(<<>>), postprocess |-> self._name]
    [] self.kind = "Appending" ->
         [call_details |-> call_details,
          request_iterator |->
            [request_iterator EXCEPT !.items = @ \o <<"extra">>],
          postprocess |-> None]
    [] OTHER ->
         [call_details |-> call_details,
          request_iterator |-> request_iterator, postprocess |-> None]

\* Faulty callback application: the mark is put before the marks of the
\* callbacks that ran earlier.
postprocess_Prepend(callback, response) ==
  [response EXCEPT !.post = <<callback>> \o @]

\* A postprocess callback applied to a response: the response marked with
\* the name of the interceptor that returned the callback.
postprocess(callback, response) ==
  [response EXCEPT !.post = Append(@, callback)]

\* The keyword arguments an entry point calls self.intercept with.
Kwargs(call_details, request_iterator, request_streaming, response_streaming) ==
  [call_details |-> call_details, request_iterator |-> request_iterator,
   request_streaming |-> request_streaming,
   response_streaming |-> response_streaming]

\* self.intercept(**kw).
intercept_kw(self, kw) ==
  intercept(self, kw.call_details, kw.request_iterator, kw.request_streaming,
            kw.response_streaming)

\* The locals of the entry point `entry` when it calls the continuation, or
\* when next(new_request_iterator) raised: its own arguments, what it
\* called intercept with, what intercept returned, and the arguments of
\* the continuation.
Frame(entry, args, kw, r, request) ==
  [entry |-> entry, args |-> args, handed |-> kw.request_iterator,
   request_streaming |-> kw.request_streaming,
   response_streaming |-> kw.response_streaming, returned |-> r,
   call_details |-> r.call_details, request |-> request,
   raised |-> request = StopIteration,
   postprocess |-> r.postprocess]

\* The positional arguments (call_details, request) of an entry point or
\* of a continuation.
Args(call_details, request) == [call_details |-> call_details, request |-> request]

\* Faulty entry point: the continuation is called with the call details
\* the entry point was given in place of those intercept returned.
intercept_unary_unary_OwnDetails(self, call_details, request) ==
  LET kw == Kwargs(call_details, iter_tuple(request), FALSE, FALSE)
      r == intercept_kw(self, kw)
  IN  [Frame("intercept_unary_unary", Args(call_details, request), kw, r,
             next(r.request_iterator))
         EXCEPT !.call_details = call_details]

\* ClientInterceptor.intercept_unary_unary up to its call of continuation.
intercept_unary_unary(self, call_details, request) ==
  LET kw == Kwargs(call_details, iter_tuple(request), FALSE, FALSE)
      r == intercept_kw(self, kw)
  IN  Frame("intercept_unary_unary", Args(call_details, request), kw, r,
            next(r.request_iterator))

\* Faulty entry point: response_streaming is passed as False.
intercept_unary_stream_NotStreaming(self, call_details, request) ==
  LET kw == Kwargs(call_details, iter_tuple(request), FALSE, FALSE)
      r == intercept_kw(self, kw)
  IN  Frame("intercept_unary_stream", Args(call_details, request), kw, r,
            next(r.request_iterator))

\* ClientInterceptor.intercept_unary_stream up to its call of continuation.
intercept_unary_stream(self, call_details, request) ==
  LET kw == Kwargs(call_details, iter_tuple(request), FALSE, TRUE)
      r == intercept_kw(self, kw)
  IN  Frame("intercept_unary_stream", Args(call_details, request), kw, r,
            next(r.request_iterator))

\* ClientInterceptor.intercept_stream_unary up to its call of continuation.
intercept_stream_unary(self, call_details, request_iterator) ==
  LET kw == Kwargs(call_details, iter_tuple(request_iterator), TRUE, FALSE)
      r == intercept_kw(self, kw)
  IN  Frame("intercept_stream_unary", Args(call_details, request_iterator), kw,
            r, r.request_iterator)

\* ClientInterceptor.intercept_stream_stream up to its call of continuation.
intercept_stream_stream(self, call_details, request_iterator) ==
  LET kw == Kwargs(call_details, iter_tuple(request_iterator), TRUE, TRUE)
      r == intercept_kw(self, kw)
  IN  Frame("intercept_stream_stream", Args(call_details, request_iterator), kw,
            r, r.request_iterator)

\* The entry point the channel calls for a call of a shape.
EntryPoint(self, shape, call_details, request) ==
  IF shape.request_streaming
  THEN IF shape.response_streaming
       THEN intercept_stream_stream(self, call_details, request)
       ELSE intercept_stream_unary(self, call_details, request)
  ELSE IF shape.response_streaming
       THEN intercept_unary_stream(self, call_details, request)
       ELSE intercept_unary_unary(self, call_details, request)

\* What the caller of an entry point that raised has in place of a
\* response: grpc turns the exception into a failed outcome of the call.
FailureOutcome == [code |-> "INTERNAL", depth |-> 0, items |-> <<>>, post |-> <<>>]

\* The characters of an input string, and the strings of a stream joined.
Chars(str) ==
  CASE str = "foo" -> <<"f", "o", "o">>
    [] str = "bar" -> <<"b", "a", "r">>
    [] OTHER -> <<str>>
RECURSIVE Join(_)
Join(strs) == IF strs = <<>> THEN "" ELSE Head(strs) \o Join(Tail(strs))

\* A response of the channel: its status code, the response message or
\* iterator of messages, and the marks postprocess callbacks left on it.
Response(code, depth, items) ==
  [code |-> code, depth |-> depth, items |-> items, post |-> <<>>]

\* DummyService behind the channel: Execute echoes the input,
\* ExecuteServerStream yields its characters, ExecuteClientStream joins
\* the inputs, ExecuteClientServerStream echoes each. A request that is
\* not a message, or a request stream whose items are not messages,
\* cannot be serialized and the call fails.
Serve(shape, request) ==
  IF request.depth # (IF shape.request_streaming THEN 1 ELSE 0)
  THEN Response("INTERNAL", 0, <<>>)
  ELSE IF shape.request_streaming
       THEN IF shape.response_streaming THEN Response("OK", 1, request.items)
            ELSE Response("OK", 0, <<Join(request.items)>>)
       ELSE IF shape.response_streaming
            THEN Response("OK", 1, Chars(request.items[1]))
            ELSE Response("OK", 0, request.items)

\* CrashingService.__call__: raise the first num_crashes times called,
\* then return success_value. The raised ValueError reaches the client
\* as the status UNKNOWN.
CrashingService__call__(self) ==
  IF 0 < self._num_crashes
  THEN [self |-> [self EXCEPT !._num_crashes = @ - 1],
        response |-> Response("UNKNOWN", 0, <<>>)]
  ELSE [self |-> self, response |-> Response("OK", 0, <<"OK">>)]

\* The servicer handling one call: a special case for a unary input it
\* was given one for, the plain DummyService otherwise.
Handle(self, shape, request) ==
  IF request.depth = 0 /\ ~shape.request_streaming /\ ~shape.response_streaming
     /\ request.items[1] \in self.special_cases
  THEN CrashingService__call__(self)
  ELSE [self |-> self, response |-> Serve(shape, request)]

M == Len(client_interceptors)

\* The server-side variables of a process that only makes client calls.
\* No server was built.
NoServerCall ==
  /\ aio = FALSE
  /\ chain = <<>>
  /\ special_cases = {}
  /\ python = PY_LATEST
  /\ received = <<>>
  /\ handler_request = None
  /\ result = NoResult
  /\ call = NoCall
  /\ handlers = [l \in {} |-> NoHandler]
  /\ pc = "client"
  /\ pos = 0
  /\ gpos = 0
  /\ flight = NoFlight
  /\ gens = <<>>
  /\ ctx = NewContext
  /\ trace = <<>>
  /\ num_calls = <<>>
  /\ num_errors = <<>>
  /\ delivered = <<>>
  /\ outcome = NoFlight

NoServer == NoOther /\ NoServerCall

\* A channel built with grpc.intercept_channel(channel, *interceptors) to
\* a DummyService, before its first call.
InitClient ==
  /\ NoServer
  /\ client_interceptors \in ClientChains
  /\ servicer = ServicerWith({}, 0)
  /\ rpc = None
  /\ issued = <<>>
  /\ cpc = "idle"
  /\ cpos = 0
  /\ cflight = None
  /\ frames = <<>>
  /\ ctrace = <<>>
  /\ wire = <<>>
  /\ reply = None

\* The same channel with interceptors that may return any iterator.
AnyClientChains ==
  UNION {[1..n -> ClientInterceptors \cup {EmptyingInterceptor, AppendingInterceptor}]
           : n \in 0..MaxChain}

InitAnyClient ==
  /\ NoServer
  /\ client_interceptors \in AnyClientChains
  /\ servicer = ServicerWith({}, 0)
  /\ rpc = None
  /\ issued = <<>>
  /\ cpc = "idle"
  /\ cpos = 0
  /\ cflight = None
  /\ frames = <<>>
  /\ ctrace = <<>>
  /\ wire = <<>>
  /\ reply = None

allServerVars == <<aio, chain, call, handlers, pc, pos, gpos, flight, gens, ctx,
                   trace, num_calls, num_errors, delivered, outcome,
                   special_cases, received, handler_request, result, python>>

\* The caller invokes a stub method: the channel calls the entry point of
\* the first interceptor with the call details and the request.
ClientCall ==
  /\ cpc = "idle"
  /\ \E shape \in Shapes : \E request \in RequestsOf(shape) :
       /\ rpc' = [shape |-> shape, request |-> request,
                  call_details |-> ClientCallDetails(StubMethod(shape), <<>>)]
       /\ cflight' = Args(ClientCallDetails(StubMethod(shape), <<>>), request)
       /\ issued' = Append(issued, request)
  /\ cpc' = "down"
  /\ cpos' = 1
  /\ frames' = <<>>
  /\ UNCHANGED <<client_interceptors, servicer, ctrace, wire, reply>>
  /\ UNCHANGED allServerVars
  /\ UNCHANGED otherVars

\* The entry point of interceptor cpos runs self.intercept and calls the
\* continuation, which is the entry point of the next interceptor or the
\* channel itself; if next(new_request_iterator) raises, the entry point
\* ends there and its caller has a failed outcome.
InterceptCall ==
  /\ cpc = "down"
  /\ cpos \in 1..M
  /\ LET f == EntryPoint(client_interceptors[cpos], rpc.shape,
                         cflight.call_details, cflight.request)
     IN  /\ frames' = Append(frames, f)
         /\ IF f.raised
            THEN /\ cflight' = FailureOutcome
                 /\ cpc' = "up"
                 /\ cpos' = cpos - 1
            ELSE /\ cflight' = Args(f.call_details, f.request)
                 /\ cpc' = "down"
                 /\ cpos' = cpos + 1
  /\ ctrace' = Append(ctrace, Event("intercept", cpos))
  /\ UNCHANGED <<client_interceptors, servicer, rpc, issued, wire, reply>>
  /\ UNCHANGED allServerVars
  /\ UNCHANGED otherVars

\* The innermost continuation: the channel sends the call to the server
\* and has its response.
ChannelCall ==
  /\ cpc = "down"
  /\ cpos = M + 1
  /\ wire' = Append(wire, cflight)
  /\ LET h == Handle(servicer, rpc.shape, cflight.request)
     IN  /\ cflight' = h.response
         /\ servicer' = h.self
  /\ ctrace' = Append(ctrace, Event("rpc", M + 1))
  /\ cpc' = "up"
  /\ cpos' = M
  /\ UNCHANGED <<client_interceptors, rpc, issued, frames, reply>>
  /\ UNCHANGED allServerVars
  /\ UNCHANGED otherVars

\* The continuation returned into the entry point of interceptor cpos:
\* `if postprocess: return postprocess(response)`, else the response.
EntryPointReturn ==
  /\ cpc = "up"
  /\ cpos \in 1..M
  /\ IF frames[cpos].postprocess # None
     THEN /\ cflight' = postprocess(frames[cpos].postprocess, cflight)
          /\ ctrace' = Append(ctrace, Event("postprocess", cpos))
     ELSE UNCHANGED <<cflight, ctrace>>
  /\ cpos' = cpos - 1
  /\ UNCHANGED <<client_interceptors, servicer, rpc, issued, cpc, frames, wire,
                 reply>>
  /\ UNCHANGED allServerVars
  /\ UNCHANGED otherVars

\* The outermost entry point returned to the caller.
ClientReturn ==
  /\ cpc = "up"
  /\ cpos = 0
  /\ reply' = cflight
  /\ cpc' = "done"
  /\ UNCHANGED <<client_interceptors, servicer, rpc, issued, cpos, cflight,
                 frames, ctrace, wire>>
  /\ UNCHANGED allServerVars
  /\ UNCHANGED otherVars

NextClient ==
  \/ ClientCall
  \/ InterceptCall
  \/ ChannelCall
  \/ EntryPointReturn
  \/ ClientReturn

SpecClient == InitClient /\ [][NextClient]_vars

SpecAnyClient == InitAnyClient /\ [][NextClient]_vars

(***************************************************************************)
(* The method-first convention: intercept(method, request_or_iterator,     *)
(* call_details), which the interceptors of the client tests implement     *)
(***************************************************************************)
\* Most calls made on one channel, most retries a RetryInterceptor is
\* built with, and most crashes a CrashingService is built with.
MaxCalls == 3
MaxRetries == 2
MaxCrashes == 2

\* The interceptor objects of the client tests. `counts` is the dict of
\* CodeCountInterceptor and `_cache` the dict of CachingInterceptor.
TestInterceptor(kind, retries) ==
  [kind |-> kind, _retries |-> retries, counts |-> [c \in {} |-> 0],
   _cache |-> [k \in {} |-> 0]]
RetryInterceptor(retries) == TestInterceptor("Retry", retries)
CodeCountInterceptor == TestInterceptor("CodeCount", 0)
CachingInterceptor == TestInterceptor("Caching", 0)

TestInterceptors ==
  {RetryInterceptor(r) : r \in 1..MaxRetries}
    \cup {CodeCountInterceptor, CachingInterceptor}
TestChains == UNION {[1..n -> TestInterceptors] : n \in 0..MaxChain}

\* The requests of the tests: a plain input, the input the special case is
\* registered for, and a stream of two inputs.
TestRequests == {Message("hello"), Message("error"), Iterator(<<"foo", "bar">>)}

\* The shape of the stub method a test request is passed to: Execute for a
\* message, ExecuteClientStream for an iterator.
ShapeOf(request) ==
  [request_streaming |-> request.depth = 1, response_streaming |-> FALSE]

\* An entry point of the method-first adapter, the same for the four call
\* shapes: it calls self.intercept(continuation, request_or_iterator,
\* call_details) and returns what that returns. These are the arguments
\* intercept is called with.
MethodFirst(continuation, call_details, request_or_iterator) ==
  [method |-> continuation, request_or_iterator |-> request_or_iterator,
   call_details |-> call_details]

\* The locals of a running intercept of the tests.
Locals(a, tries_remaining, cache_key) ==
  [method |-> a.method, call_details |-> a.call_details,
   request_or_iterator |-> a.request_or_iterator,
   tries_remaining |-> tries_remaining, cache_key |-> cache_key]

\* Faulty retry loop: the future is returned whether or not it failed.
RetryTurn_GiveUp(tries_remaining, future) ==
  [return |-> TRUE, tries_remaining |-> tries_remaining]

\* RetryInterceptor.intercept, one turn of its loop after method returned
\* future: future.result() raises unless the call succeeded; a failure
\* uses up one try, and the loop ends when none remains.
RetryTurn(tries_remaining, future) ==
  IF future.code = "OK"
  THEN [return |-> TRUE, tries_remaining |-> tries_remaining]
  ELSE [return |-> ~(0 < tries_remaining - 1),
        tries_remaining |-> tries_remaining - 1]

\* Faulty cache key: the inputs are left out of it.
cache_key_NoInputs(request_or_iterator) ==
  [tuple |-> request_or_iterator.depth = 1, inputs |-> <<>>]

\* CachingInterceptor.intercept: the tuple of the inputs of an iterable
\* request, the input of a message.
cache_key(request_or_iterator) ==
  [tuple |-> request_or_iterator.depth = 1, inputs |-> request_or_iterator.items]

\* counts[code] += 1 on a defaultdict(int).
Counted(counts, code) ==
  [c \in DOMAIN counts \cup {code} |->
     IF c = code THEN (IF c \in DOMAIN counts THEN counts[c] ELSE 0) + 1
     ELSE counts[c]]

\* self._cache[cache_key] = future.
Cached(cache, key, future) ==
  [k \in DOMAIN cache \cup {key} |-> IF k = key THEN future ELSE cache[k]]

\* A channel with the interceptors of the tests to a DummyService whose
\* special case "error" is a CrashingService.
InitMethodFirst ==
  /\ NoServer
  /\ client_interceptors \in TestChains
  /\ servicer \in {ServicerWith({"error"}, c) : c \in 1..MaxCrashes}
  /\ rpc = None
  /\ issued = <<>>
  /\ cpc = "idle"
  /\ cpos = 0
  /\ cflight = None
  /\ frames = <<>>
  /\ ctrace = <<>>
  /\ wire = <<>>
  /\ reply = None

\* The test calls client.Execute or client.ExecuteClientStream.
StubCall ==
  /\ cpc \in {"idle", "done"}
  /\ Len(issued) < MaxCalls
  /\ \E request \in TestRequests :
       /\ rpc' = [shape |-> ShapeOf(request), request |-> request,
                  call_details |->
                    ClientCallDetails(StubMethod(ShapeOf(request)), <<>>)]
       /\ cflight' = Args(ClientCallDetails(StubMethod(ShapeOf(request)), <<>>),
                          request)
       /\ issued' = Append(issued, request)
  /\ cpc' = "down"
  /\ cpos' = 1
  /\ frames' = <<>>
  /\ UNCHANGED <<client_interceptors, servicer, ctrace, wire, reply>>
  /\ UNCHANGED allServerVars
  /\ UNCHANGED otherVars

\* The interceptor whose entry point is being called or resumed.
self == client_interceptors[cpos]

\* The arguments of intercept when the entry point of interceptor cpos is
\* called with the call in cflight.
InterceptArgs == MethodFirst(cpos + 1, cflight.call_details, cflight.request)

\* intercept of interceptor cpos calls method(call_details,
\* request_or_iterator) with its locals l.
CallMethod(l) ==
  /\ frames' = Append(SubSeq(frames, 1, cpos - 1), l)
  /\ cflight' = Args(l.call_details, l.request_or_iterator)
  /\ cpc' = "down"
  /\ cpos' = l.method

\* intercept of interceptor cpos returns future to its entry point, and
\* the entry point returns it to its caller.
ReturnFuture(future) ==
  /\ frames' = SubSeq(frames, 1, cpos - 1)
  /\ cflight' = future
  /\ cpc' = "up"
  /\ cpos' = cpos - 1

\* CodeCountInterceptor.intercept up to `future = method(...)`.
CodeCountIntercept ==
  /\ cpc = "down"
  /\ cpos \in 1..M
  /\ self.kind = "CodeCount"
  /\ CallMethod(Locals(InterceptArgs, 0, None))
  /\ ctrace' = Append(ctrace, Event("intercept", cpos))
  /\ UNCHANGED <<client_interceptors, servicer, rpc, issued, wire, reply>>
  /\ UNCHANGED allServerVars
  /\ UNCHANGED otherVars

\* CodeCountInterceptor.intercept after method returned: count the code
\* and return the future.
CodeCountReturn ==
  /\ cpc = "up"
  /\ cpos \in 1..M
  /\ self.kind = "CodeCount"
  /\ client_interceptors' =
       [client_interceptors EXCEPT ![cpos].counts = Counted(@, cflight.code)]
  /\ ReturnFuture(cflight)
  /\ UNCHANGED <<servicer, rpc, issued, ctrace, wire, reply>>
  /\ UNCHANGED allServerVars
  /\ UNCHANGED otherVars

\* RetryInterceptor.intercept up to its first `future = method(...)`.
RetryIntercept ==
  /\ cpc = "down"
  /\ cpos \in 1..M
  /\ self.kind = "Retry"
  /\ CallMethod(Locals(InterceptArgs, 1 + self._retries, None))
  /\ ctrace' = Append(ctrace, Event("intercept", cpos))
  /\ UNCHANGED <<client_interceptors, servicer, rpc, issued, wire, reply>>
  /\ UNCHANGED allServerVars
  /\ UNCHANGED otherVars

\* RetryInterceptor.intercept after method returned: return the future, or
\* call method again with the same call details and request.
RetryReturn ==
  /\ cpc = "up"
  /\ cpos \in 1..M
  /\ self.kind = "Retry"
  /\ LET t == RetryTurn(frames[cpos].tries_remaining, cflight)
     IN  IF t.return
         THEN ReturnFuture(cflight)
         ELSE CallMethod([frames[cpos] EXCEPT
                            !.tries_remaining = t.tries_remaining])
  /\ UNCHANGED <<client_interceptors, servicer, rpc, issued, ctrace, wire, reply>>
  /\ UNCHANGED allServerVars
  /\ UNCHANGED otherVars

\* CachingInterceptor.intercept up to its return of a cached future or
\* its call of method.
CachingIntercept ==
  /\ cpc = "down"
  /\ cpos \in 1..M
  /\ self.kind = "Caching"
  /\ LET key == cache_key(InterceptArgs.request_or_iterator)
     IN  IF key \in DOMAIN self._cache
         THEN ReturnFuture(self._cache[key])
         ELSE CallMethod(Locals(InterceptArgs, 0, key))
  /\ ctrace' = Append(ctrace, Event("intercept", cpos))
  /\ UNCHANGED <<client_interceptors, servicer, rpc, issued, wire, reply>>
  /\ UNCHANGED allServerVars
  /\ UNCHANGED otherVars

\* CachingInterceptor.intercept after method returned: store the future
\* under the key and return it.
CachingReturn ==
  /\ cpc = "up"
  /\ cpos \in 1..M
  /\ self.kind = "Caching"
  /\ client_interceptors' =
       [client_interceptors EXCEPT
          ![cpos]._cache = Cached(@, frames[cpos].cache_key, cflight)]
  /\ ReturnFuture(cflight)
  /\ UNCHANGED <<servicer, rpc, issued, ctrace, wire, reply>>
  /\ UNCHANGED allServerVars
  /\ UNCHANGED otherVars

NextMethodFirst ==
  \/ StubCall
  \/ CodeCountIntercept
  \/ CodeCountReturn
  \/ RetryIntercept
  \/ RetryReturn
  \/ CachingIntercept
  \/ CachingReturn
  \/ ChannelCall
  \/ ClientReturn

SpecMethodFirst == InitMethodFirst /\ [][NextMethodFirst]_vars

(***************************************************************************)
(* GrpcException objects: class attributes and instance attributes         *)
(***************************************************************************)
\* Most exceptions constructed one after the other.
MaxInstances == 3

\* Faulty __init__: the overrides are assigned to the class.
GrpcException__init___OnClass(heap, cls, details, status_code) ==
  IF status_code # None /\ status_code = "OK"
  THEN [raised |-> GrpcException(cls, details, status_code).raised, heap |-> heap]
  ELSE [raised |-> NoEx,
        heap |->
          [classes |->
             [heap.classes EXCEPT ![cls] =
                [status_code |-> IF status_code # None THEN status_code
                                 ELSE @.status_code,
                 details |-> IF details # None THEN details ELSE @.details]],
           instances |->
             Append(heap.instances,
                    [cls |-> cls,
                     created |-> [details |-> details, status_code |-> status_code],
                     dict |-> [status_code |-> None, details |-> None]])]]

\* cls(details, status_code) for cls GrpcException or a subclass: __init__
\* assigns self.status_code and self.details when they are given, so the
\* new instance holds them in its own dict (None: not assigned) and the
\* class attributes stay.
GrpcException__init__(heap, cls, details, status_code) ==
  IF status_code # None /\ status_code = "OK"
  THEN [raised |-> GrpcException(cls, details, status_code).raised, heap |-> heap]
  ELSE [raised |-> NoEx,
        heap |->
          [heap EXCEPT !.instances =
             Append(@, [cls |-> cls,
                        created |-> [details |-> details,
                                     status_code |-> status_code],
                        dict |-> [status_code |-> status_code,
                                  details |-> details]])]]

\* getattr(instance k, name): the instance's own attribute if it has one,
\* the attribute of its class otherwise.
getattr(heap, k, name) ==
  LET o == heap.instances[k]
  IN  IF o.dict[name] # None THEN o.dict[name] ELSE heap.classes[o.cls][name]

\* The constructor calls made: the base class and a subclass, with and
\* without each override.
ConstructorCalls ==
  [cls : {"GrpcException", "NotFound"}, details : {None, "custom"},
   status_code : {None, "OK", "NOT_FOUND", "DATA_LOSS"}]

InitExceptions ==
  /\ NoClient
  /\ NoServerCall
  /\ result = NoResult
  /\ exceptions = [classes |-> ClassAttrs, instances |-> <<>>]
  /\ inflight = [cells |-> <<>>, calls |-> <<>>, log |-> <<>>]
  /\ harness = [pc |-> "none"]

\* One more exception is constructed.
Construct ==
  /\ Len(exceptions.instances) < MaxInstances
  /\ \E a \in ConstructorCalls :
       exceptions' =
         GrpcException__init__(exceptions, a.cls, a.details, a.status_code).heap
  /\ UNCHANGED <<serverVars, result, inflight, harness>>

NextExceptions == Construct

SpecExceptions == InitExceptions /\ [][NextExceptions]_vars

(***************************************************************************)
(* The RpcMethodHandler that intercept_service returns                     *)
(***************************************************************************)
\* A handler slot that holds no behaviour (None in the source).
Empty == <<>>

\* grpc.RpcMethodHandler: the two flags, the two converters and the four
\* slots. A slot holds Empty or a behaviour, written as the names of the
\* functions it is made of, outermost first.
RpcMethodHandler(rs, ps, deserializer, serializer, uu, us, su, ss) ==
  [request_streaming |-> rs, response_streaming |-> ps,
   request_deserializer |-> deserializer, response_serializer |-> serializer,
   unary_unary |-> uu, unary_stream |-> us, stream_unary |-> su,
   stream_stream |-> ss]

\* grpc.unary_unary_rpc_method_handler and its three siblings, named by
\* their shape: a handler with that one slot and the flags of the shape.
rpc_method_handler(factory, behavior, request_deserializer, response_serializer) ==
  RpcMethodHandler(factory \in {"stream_unary", "stream_stream"},
                   factory \in {"unary_stream", "stream_stream"},
                   request_deserializer, response_serializer,
                   IF factory = "unary_unary" THEN behavior ELSE Empty,
                   IF factory = "unary_stream" THEN behavior ELSE Empty,
                   IF factory = "stream_unary" THEN behavior ELSE Empty,
                   IF factory = "stream_stream" THEN behavior ELSE Empty)

\* Faulty choice: the unary-unary factory whatever slot holds the method.
get_factory_and_method_AlwaysUnary(rpc_handler) ==
  [factory |-> "unary_unary",
   method |-> IF rpc_handler.unary_unary # Empty THEN rpc_handler.unary_unary
              ELSE IF rpc_handler.unary_stream # Empty THEN rpc_handler.unary_stream
              ELSE IF rpc_handler.stream_unary # Empty THEN rpc_handler.stream_unary
              ELSE rpc_handler.stream_stream]

\* _get_factory_and_method(rpc_handler): the factory and the behaviour of
\* the first slot that is not empty.
get_factory_and_method(rpc_handler) ==
  IF rpc_handler.unary_unary # Empty
  THEN [factory |-> "unary_unary", method |-> rpc_handler.unary_unary]
  ELSE IF rpc_handler.unary_stream # Empty
  THEN [factory |-> "unary_stream", method |-> rpc_handler.unary_stream]
  ELSE IF rpc_handler.stream_unary # Empty
  THEN [factory |-> "stream_unary", method |-> rpc_handler.stream_unary]
  ELSE [factory |-> "stream_stream", method |-> rpc_handler.stream_stream]

\* The invoke_intercept_method closure of either adapter over a method. The
\* async adapter defines it as an async generator when the next handler's
\* response_streaming flag is set and as a coroutine function otherwise.
Closure(is_aio, next_handler, behaviour) ==
  <<IF is_aio /\ next_handler.response_streaming
    THEN "invoke_intercept_method (async generator)"
    ELSE "invoke_intercept_method">> \o behaviour

\* What intercept_service of either adapter returns for a next handler
\* that is not None.
ServiceHandler(is_aio, next_handler) ==
  LET fm == get_factory_and_method(next_handler)
  IN  rpc_method_handler(fm.factory,
                         Closure(is_aio, next_handler, fm.method),
                         next_handler.request_deserializer,
                         next_handler.response_serializer)

\* The handlers a servicer can register: any one or more slots filled,
\* any flags, with or without converters.
Slots == {Empty, <<"Execute">>}
ServicerHandlers ==
  {h \in [request_streaming : BOOLEAN, response_streaming : BOOLEAN,
          request_deserializer : {None, "FromString"},
          response_serializer : {None, "SerializeToString"},
          unary_unary : Slots, unary_stream : Slots, stream_unary : Slots,
          stream_stream : Slots] :
     \/ h.unary_unary # Empty
     \/ h.unary_stream # Empty
     \/ h.stream_unary # Empty
     \/ h.stream_stream # Empty}

\* A server with 1..MaxChain interceptors resolving the handler of a call:
\* the servicer's handler has been looked up.
InitHandlers ==
  /\ NoClient
  /\ NoOther
  /\ aio \in BOOLEAN
  /\ chain \in UNION {[1..n -> {CountingInterceptor}] : n \in 1..MaxChain}
  /\ special_cases = {}
  /\ python = PY_LATEST
  /\ received = <<>>
  /\ handler_request = None
  /\ result = NoResult
  /\ call = NoCall
  /\ \E h \in ServicerHandlers : handlers = (Len(chain) + 1) :> h
  /\ pc = "resolve_up"
  /\ pos = Len(chain)
  /\ gpos = 0
  /\ flight = NoFlight
  /\ gens = <<>>
  /\ ctx = NewContext
  /\ trace = <<>>
  /\ num_calls = <<>>
  /\ num_errors = <<>>
  /\ delivered = <<>>
  /\ outcome = NoFlight

\* intercept_service of interceptor pos returns its handler to the
\* continuation of interceptor pos - 1, or to the server.
ServiceReturn ==
  /\ pc = "resolve_up"
  /\ pos >= 1
  /\ handlers' = (pos :> ServiceHandler(aio, handlers[pos + 1])) @@ handlers
  /\ pos' = pos - 1
  /\ UNCHANGED clientVars
  /\ UNCHANGED otherVars
  /\ UNCHANGED <<python, special_cases, result, received, handler_request>>
  /\ UNCHANGED <<aio, chain, call, pc, gpos, flight, gens, ctx, trace,
                 num_calls, num_errors, delivered, outcome>>

NextHandlers == ServiceReturn

SpecHandlers == InitHandlers /\ [][NextHandlers]_vars

(***************************************************************************)
(* What the caller observes                                                *)
(***************************************************************************)
Failed == pc = "done" /\ outcome.t = "exc"
Succeeded == pc = "done" /\ outcome.t \in {"val", "stop"}

\* The status the client sees: UNIMPLEMENTED when no handler was found,
\* the status on the context of a failed call, UNKNOWN when the call
\* failed and nothing set one.
ClientStatus ==
  CASE outcome.t = "unimplemented" -> [code |-> "UNIMPLEMENTED", details |-> None]
    [] outcome.t = "exc" ->
         IF ctx.code # None THEN ctx ELSE [code |-> "UNKNOWN", details |-> None]
    [] OTHER -> [code |-> "OK", details |-> None]

TypeOK ==
  /\ pc \in {"idle", "resolve_down", "resolve_up", "call_down", "call_up",
             "pull_down", "pull_up", "done", "library", "client"}
  /\ pos \in 0..(N + 1)
  /\ gpos \in 0..(Len(gens) + 1)
  /\ Len(delivered) <= MaxItems

(***************************************************************************)
(* Properties                                                              *)
(***************************************************************************)
HasTranslator == \E i \in 1..N : chain[i].kind = "ExceptionToStatus"
AllCounting == \A i \in 1..N : chain[i].kind = "Counting"

\* The handler of the call fails, and the exception that leaves it.
HandlerFails == call.registered /\ call.end.t # "return"
Original == IF call.end.t = "raise" THEN call.end.ex ELSE AbortError

\* The context as the handler leaves it.
HandlerContext ==
  IF call.end.t = "abort"
  THEN [code |-> call.end.code, details |-> call.end.details]
  ELSE NewContext

Pres == SelectSeq(trace, LAMBDA ev : ev.e = "pre")
WithoutBody == SelectSeq(trace, LAMBDA ev : ev.e # "body")
IndexOf(ev) == CHOOSE k \in 1..Len(trace) : trace[k] = ev

\* pre 1, ..., pre N, the handler is called and runs, post N, ..., post 1
Nested ==
  [k \in 1..(2 * N + 2) |->
     IF k <= N THEN Event("pre", k)
     ELSE IF k = N + 1 THEN Event("called", N + 1)
     ELSE IF k = N + 2 THEN Event("body", N + 1)
     ELSE Event("post", 2 * N + 3 - k)]
NestedCalled ==
  [k \in 1..(2 * N + 1) |->
     IF k <= N THEN Event("pre", k)
     ELSE IF k = N + 1 THEN Event("called", N + 1)
     ELSE Event("post", 2 * N + 2 - k)]

\* C1 as stated: for every call that completes normally, of any shape and
\* under either adapter, the pre-processing runs in order I1..IN, then the
\* handler is invoked, then the code after `method` returns runs in order
\* IN..I1.
C1_AsStated ==
  (Succeeded /\ call.registered) => WithoutBody = NestedCalled

\* C1 (amended): for a unary-response call that completes normally the
\* order is pre I1..IN, the handler, post IN..I1; for a response-streaming
\* call the pre-processing still runs in order I1..IN and all of it
\* precedes the handler's body.
C1_NestedOrder ==
  (Succeeded /\ call.registered) =>
    /\ ~Streaming => trace = Nested
    /\ Pres = [k \in 1..N |-> Event("pre", k)]
    /\ \A k \in 1..N : IndexOf(Event("pre", k)) < IndexOf(Event("body", N + 1))

C1_Witness ==
  /\ Succeeded /\ call.registered /\ ~Streaming
  /\ N >= 2
  /\ trace = Nested

\* C2: the adapters never swallow or replace an error. When the handler
\* fails the call fails; every interceptor that invoked `method` on a
\* unary-response call saw an exception there; and when no interceptor of
\* the chain translates, the runtime receives the very exception the
\* handler raised.
C2_ErrorsPropagate ==
  (pc = "done" /\ HandlerFails) =>
    /\ Failed
    /\ ~Streaming =>
         \A i \in 1..N : chain[i].kind = "Counting" => num_errors[i] = 1
    /\ AllCounting => outcome = Flight("exc", None, Original)

C2_Witness ==
  /\ pc = "done" /\ HandlerFails /\ ~Streaming
  /\ N >= 2 /\ AllCounting
  /\ num_errors[1] = 1
  /\ outcome.ex = ValueError("oops")

\* C3: for a call to an unregistered method every intercept_service
\* returns no handler, no intercept runs (the counters stay at zero), and
\* the caller observes UNIMPLEMENTED.
C3_Unimplemented ==
  (pc # "idle" /\ ~call.registered) =>
    /\ \A l \in DOMAIN handlers : handlers[l] = NoHandler
    /\ trace = <<>>
    /\ \A i \in 1..N : num_calls[i] = 0 /\ num_errors[i] = 0
    /\ pc \in {"resolve_down", "resolve_up", "done"}
    /\ pc = "done" =>
         /\ DOMAIN handlers = 1..(N + 1)
         /\ ClientStatus.code = "UNIMPLEMENTED"

C3_Witness ==
  /\ pc = "done" /\ ~call.registered
  /\ N >= 1 /\ chain[1].kind = "Counting"
  /\ DOMAIN handlers = 1..(N + 1)
  /\ outcome.t = "unimplemented"

\* A translator is about to handle the exception in flight: in intercept,
\* where method(...) raised, or in _generate_responses, where the
\* iteration raised.
TranslatorHandling ==
  /\ flight.t = "exc"
  /\ \/ pc = "call_up" /\ pos \in 1..N /\ chain[pos].kind = "ExceptionToStatus"
     \/ pc = "pull_up" /\ gpos \in 1..Len(gens) /\ gens[gpos].k = "xlate"
HandlingSelf == IF pc = "call_up" THEN chain[pos] ELSE chain[gens[gpos].i]

Status(code, details) == [code |-> code, details |-> details]
HasFallback(i) ==
  chain[i].kind = "ExceptionToStatus" /\ chain[i]._status_on_unknown_exception # None
\* The innermost translator that has a fallback status.
InnermostFallback ==
  CHOOSE i \in 1..N : HasFallback(i) /\ \A j \in (i + 1)..N : ~HasFallback(j)

\* C4: whenever a GrpcException e reaches a translator, the context's code
\* and details become those of e; and when the handler raises a
\* GrpcException e under a translator, the caller observes e.status_code
\* and e.details.
C4_GrpcExceptionStatus ==
  /\ [][(TranslatorHandling /\ IsGrpcException(flight.ex)) =>
          ctx' = Status(flight.ex.status_code, flight.ex.details)]_vars
  /\ [](( /\ pc = "done" /\ call.registered /\ HasTranslator
          /\ call.end.t = "raise" /\ IsGrpcException(call.end.ex)) =>
          /\ Failed
          /\ ClientStatus = Status(call.end.ex.status_code, call.end.ex.details))

C4_Witness ==
  /\ pc = "done" /\ HasTranslator
  /\ call.end = Raise(GrpcException("NotFound", "custom", None).self)
  /\ ClientStatus = Status("NOT_FOUND", "custom")

\* C5 as stated: whenever the handler fails under a translator, the call
\* fails and the exception that reaches the runtime is the original one.
C5_AsStated ==
  (pc = "done" /\ HandlerFails /\ HasTranslator) =>
    (Failed /\ outcome.ex = Original)

\* C5 (amended): whenever the handler fails under a translator the call
\* never completes normally; the exception that reaches the runtime is the
\* original one when no translator set a status, and the exception raised
\* by context.abort when one did.
C5_NeverSwallows ==
  (pc = "done" /\ HandlerFails /\ HasTranslator) =>
    /\ Failed
    /\ \/ ctx = HandlerContext /\ outcome.ex = Original
       \/ ctx # HandlerContext /\ outcome.ex = AbortError

C5_Witness ==
  /\ pc = "done" /\ HandlerFails /\ HasTranslator
  /\ IsGrpcException(Original)
  /\ Failed /\ outcome.ex = AbortError

\* C6 as stated: whenever an exception that is not a GrpcException reaches
\* a translator that has a fallback status, the context's code becomes the
\* fallback and its details repr(ex).
C6_AsStated ==
  [][( /\ TranslatorHandling /\ ~IsGrpcException(flight.ex)
       /\ HandlingSelf._status_on_unknown_exception # None) =>
       ctx' = Status(HandlingSelf._status_on_unknown_exception, Repr(flight.ex))]_vars

\* C6 (amended): the same, provided the context carries no status code
\* yet; then the caller of a handler that raised such an exception
\* observes the fallback of the innermost translator that has one, with
\* repr(ex) as details.
C6_FallbackStatus ==
  /\ [][( /\ TranslatorHandling /\ ~IsGrpcException(flight.ex)
          /\ HandlingSelf._status_on_unknown_exception # None
          /\ ctx.code = None) =>
          ctx' = Status(HandlingSelf._status_on_unknown_exception, Repr(flight.ex))]_vars
  /\ [](( /\ pc = "done" /\ call.registered
          /\ call.end.t = "raise" /\ ~IsGrpcException(call.end.ex)
          /\ \E i \in 1..N : HasFallback(i)) =>
          ClientStatus = Status(chain[InnermostFallback]._status_on_unknown_exception,
                                Repr(call.end.ex)))

C6_Witness ==
  /\ pc = "done" /\ call.end = Raise(ValueError("oops"))
  /\ N >= 1 /\ HasFallback(N)
  /\ ClientStatus = Status("INTERNAL", "ValueError('oops')")

\* C7: when the context already carries a status (the handler called
\* context.abort), a translator with a fallback status leaves the
\* context's code and details unchanged, lets the exception propagate, and
\* the caller observes the earlier status.
C7_AbortedContextKept ==
  /\ [][( /\ TranslatorHandling /\ ~IsGrpcException(flight.ex)
          /\ HandlingSelf._status_on_unknown_exception # None
          /\ ctx.code # None) =>
          (ctx' = ctx /\ flight' = flight)]_vars
  /\ [](( /\ pc = "done" /\ call.registered /\ call.end.t = "abort"
          /\ \E i \in 1..N : HasFallback(i)) =>
          /\ Failed /\ outcome.ex = AbortError
          /\ ClientStatus = Status(call.end.code, call.end.details))

C7_Witness ==
  /\ pc = "done" /\ call.registered /\ call.end.t = "abort"
  /\ N >= 1 /\ HasFallback(1)
  /\ Failed
  /\ ClientStatus = Status("RESOURCE_EXHAUSTED", "resource exhausted")

\* The interceptors of the chain include a translator, and none of the
\* translators has a fallback status.
NoFallbackConfigured ==
  HasTranslator /\ \A i \in 1..N : ~HasFallback(i)

\* C8 as stated: when the handler raises an exception that is not a
\* GrpcException and no fallback is configured, the context is left as it
\* was, the exception propagates, and the caller observes UNKNOWN.
C8_AsStated ==
  ( /\ pc = "done" /\ HandlerFails /\ ~IsGrpcException(Original)
    /\ NoFallbackConfigured) =>
    /\ ctx = HandlerContext
    /\ Failed /\ outcome.ex = Original
    /\ ClientStatus.code = "UNKNOWN"

\* C8 (amended): a translator without a fallback leaves the context
\* exactly as it was and passes the exception on; the caller observes
\* UNKNOWN when the context carries no status, else the status it already
\* carried.
C8_ContextUntouched ==
  /\ [][( /\ TranslatorHandling /\ ~IsGrpcException(flight.ex)
          /\ HandlingSelf._status_on_unknown_exception = None) =>
          (ctx' = ctx /\ flight' = flight)]_vars
  /\ [](( /\ pc = "done" /\ HandlerFails /\ ~IsGrpcException(Original)
          /\ NoFallbackConfigured) =>
          /\ ctx = HandlerContext
          /\ Failed /\ outcome.ex = Original
          /\ ClientStatus = IF HandlerContext.code = None
                            THEN Status("UNKNOWN", None)
                            ELSE HandlerContext)

C8_Witness ==
  /\ pc = "done" /\ call.end = Raise(ValueError("oops"))
  /\ NoFallbackConfigured
  /\ ctx = NewContext
  /\ Failed /\ outcome.ex = ValueError("oops")
  /\ ClientStatus.code = "UNKNOWN"

\* C9: when the handler completes without raising, the outcome passes
\* through unchanged: the unary response is the handler's value, the
\* stream delivers the handler's items in order, and the context's status
\* is never touched.
C9_SuccessUnchanged ==
  (pc # "idle" /\ call.registered /\ call.end.t = "return") =>
    /\ ctx = NewContext
    /\ delivered = SubSeq(Letters, 1, Len(delivered))
    /\ pc = "done" =>
         /\ Succeeded
         /\ ~Streaming => outcome = Flight("val", call.request, NoEx)
         /\ Streaming => delivered = SubSeq(Letters, 1, call.n)

C9_Witness ==
  /\ pc = "done" /\ call.registered /\ call.end.t = "return"
  /\ HasTranslator /\ Streaming
  /\ call.n >= 2 /\ Len(delivered) = call.n

\* The handle_exception calls of the call so far, in order.
Handled == SelectSeq(trace, LAMBDA ev : ev.e = "handle_exception")
\* The translators of the chain, innermost first.
RECURSIVE TranslatorsUpTo(_)
TranslatorsUpTo(i) ==
  IF i = 0 THEN <<>>
  ELSE IF chain[i].kind = "ExceptionToStatus"
       THEN <<Event("handle_exception", i)>> \o TranslatorsUpTo(i - 1)
       ELSE TranslatorsUpTo(i - 1)

\* C10: a failure while the consumer pulls item k+1 of a streaming
\* response is handled like a failure of a unary call: the k items before
\* it are delivered in order, handle_exception of every translator runs
\* (innermost first), a GrpcException's code and details are on the
\* context, and the failure reaches the consumer.
C10_MidStreamFailure ==
  ( /\ pc = "done" /\ call.registered /\ Streaming
    /\ call.end.t = "raise" /\ HasTranslator) =>
    /\ delivered = SubSeq(Letters, 1, call.n)
    /\ Handled = TranslatorsUpTo(N)
    /\ IsGrpcException(call.end.ex) =>
         ctx = Status(call.end.ex.status_code, call.end.ex.details)
    /\ Failed

C10_Witness ==
  /\ pc = "done" /\ Streaming /\ HasTranslator
  /\ call.n >= 1 /\ Len(delivered) = call.n
  /\ call.end = Raise(GrpcException("NotFound", None, None).self)
  /\ Failed
  /\ ctx = Status("NOT_FOUND", "The requested entity was not found")

\* Every interceptor of the chain delegates to method or re-yields from it.
AllDelegate == \A i \in 1..N : chain[i].kind # "Aborting"
\* The items the handler's generator has produced so far.
Produced ==
  IF \E k \in 1..Len(gens) : gens[k].k = "handler"
  THEN gens[CHOOSE k \in 1..Len(gens) : gens[k].k = "handler"].sent
  ELSE 0
\* The items the handler computes from the request it was called with.
HandlerItems == SubSeq(Output(handler_request), 1, call.n)

\* C11: for a response-streaming call whose interceptors all delegate to
\* or re-yield from `method`, the consumer receives the handler's items in
\* the handler's order; an item is produced only while the consumer is
\* pulling it (the handler is never more than the item in transit ahead of
\* the consumer, and the consumer pulls once at the start and once after
\* each item it received); and a handler that fails after n items fails
\* the call when exactly n items were received, on pull n+1, with the
\* handler's own exception when no translator is in the chain.
C11_LazyStream ==
  (pc # "idle" /\ call.registered /\ Streaming /\ AllDelegate) =>
    /\ delivered = SubSeq(HandlerItems, 1, Len(delivered))
    /\ Produced \in {Len(delivered), Len(delivered) + 1}
    /\ Produced = Len(delivered) + 1 =>
         /\ pc = "pull_up"
         /\ flight = Flight("item", HandlerItems[Produced], NoEx)
    /\ pc \in {"resolve_down", "resolve_up"} => handler_request = None
    /\ pc = "done" =>
         /\ delivered = HandlerItems
         /\ call.end.t = "return" => Succeeded
         /\ call.end.t # "return" => Failed
         /\ (call.end.t # "return" /\ ~HasTranslator) => outcome.ex = Original

C11_Witness ==
  /\ pc = "done" /\ Streaming /\ AllDelegate /\ N >= 2
  /\ \E i \in 1..N : chain[i].kind = "StreamingLogging"
  /\ \E i \in 1..N : chain[i].kind = "Counting"
  /\ call.n >= 2 /\ delivered = SubSeq(Letters, 1, call.n)
  /\ call.end = Raise(ValueError("oops"))
  /\ Failed /\ outcome.ex = ValueError("oops")

\* C12: constructing GrpcException, or any class of the taxonomy, with
\* status_code OK raises ValueError and yields no instance; every instance
\* a construction yields has a status code other than OK (the one given,
\* else the one of its class).
C12_NeverOK ==
  (result.op = "GrpcException" /\ result.returned) =>
    /\ result.args.status_code = "OK" =>
         (result.raised.cls = "ValueError" /\ result.value = NoEx)
    /\ result.args.status_code # "OK" => result.raised = NoEx
    /\ result.raised = NoEx =>
         /\ result.value.cls = result.args.cls
         /\ result.value.status_code \in StatusCode \ {"OK"}
         /\ result.args.status_code # None =>
              result.value.status_code = result.args.status_code

C12_Witness ==
  /\ result.op = "GrpcException" /\ result.returned
  /\ result.args.cls = "NotFound" /\ result.args.status_code = "OK"
  /\ result.raised.cls = "ValueError"
  /\ result.value = NoEx

\* C13: constructing ExceptionToStatusInterceptor or its async twin with
\* status_on_unknown_exception OK raises ValueError and yields no
\* instance, so no translator holds OK as its fallback; and
\* handle_exception of a translator never leaves the status code OK on a
\* context.
C13_FallbackNeverOK ==
  /\ (result.op = "ExceptionToStatusInterceptor" /\ result.returned) =>
       /\ result.args.status_on_unknown_exception = "OK" =>
            (result.raised.cls = "ValueError" /\ result.value = NoInterceptor)
       /\ result.args.status_on_unknown_exception # "OK" =>
            /\ result.raised = NoEx
            /\ result.value._status_on_unknown_exception =
                 result.args.status_on_unknown_exception
  /\ result.op = "handle_exception" =>
       /\ result.args.self._status_on_unknown_exception # "OK"
       /\ result.returned => result.value.code # "OK"

C13_Witness ==
  /\ result.op = "ExceptionToStatusInterceptor" /\ result.returned
  /\ result.args.aio /\ result.args.status_on_unknown_exception = "OK"
  /\ result.raised = ValueError("The status code for unknown exceptions cannot be OK")
  /\ result.value = NoInterceptor

\* C14: every status code except OK has exactly one subclass whose
\* class-level status_code it is, the one named by the CamelCase of the
\* code's name; the class-level details of the subclasses are pairwise
\* distinct; and when the handler raises a default instance of a subclass
\* under a translator, the caller observes the status code and the details
\* of that class.
C14_Taxonomy ==
  /\ \A code \in StatusCode \ {"OK"} :
       {c \in ConcreteClasses : ClassStatusCode[c] = code} = {snake_to_camel(code)}
  /\ \A c1, c2 \in ConcreteClasses : c1 # c2 => ClassDetails[c1] # ClassDetails[c2]
  /\ (pc = "done" /\ call.registered) =>
       /\ call.end \in DefaultInstances
       /\ Failed
       /\ ClientStatus = Status(ClassStatusCode[call.end.ex.cls],
                                ClassDetails[call.end.ex.cls])

C14_Witness ==
  /\ pc = "done" /\ call.registered /\ HasTranslator
  /\ call.end = Raise(GrpcException("Unauthenticated", None, None).self)
  /\ Failed
  /\ ClientStatus =
       Status("UNAUTHENTICATED",
              "The request does not have valid authentication credentials for the operation")

\* The path has the shape /<service>/<method>: it starts with a slash and
\* has one more.
Slashes(p) == Cardinality({k \in 1..Len(p) : p[k] = "/"})
ValidPath(p) == Len(p) >= 1 /\ p[1] = "/" /\ Slashes(p) = 2
\* Index of the second slash of a path that starts with one.
SecondSlash(p) == CHOOSE k \in 2..Len(p) : p[k] = "/" /\ \A j \in 2..(k - 1) : p[j] # "/"
Middle(p) == SubSeq(p, 2, SecondSlash(p) - 1)
Dots(s) == {k \in 1..Len(s) : s[k] = "."}
LastDot(s) == CHOOSE k \in Dots(s) : \A j \in Dots(s) : j <= k

\* C15: for a path of the shape /<dotted service>/<method>,
\* parse_method_name returns the method as the segment after the last
\* slash, the service as the part of the middle segment after its last
\* dot, and the package as the part before that dot (empty when the middle
\* segment has no dot); fully_qualified_service is package + "." + service
\* when the package is not empty and the service otherwise.
C15_ParseValid ==
  ( /\ result.op = "parse_method_name" /\ result.returned
    /\ ValidPath(result.args.method_name)) =>
    LET p == result.args.method_name
        m == Middle(p)
        v == result.value.name
    IN  /\ result.raised = NoEx
        /\ v.method = SubSeq(p, SecondSlash(p) + 1, Len(p))
        /\ Dots(m) = {} => (v.package = <<>> /\ v.service = m)
        /\ Dots(m) # {} =>
             /\ v.package = SubSeq(m, 1, LastDot(m) - 1)
             /\ v.service = SubSeq(m, LastDot(m) + 1, Len(m))
        /\ result.value.fully_qualified_service =
             IF v.package # <<>> THEN v.package \o <<".">> \o v.service
             ELSE v.service

C15_Witness ==
  /\ result.op = "parse_method_name" /\ result.returned
  /\ result.args.method_name = <<"/", "a", ".", "b", "/", "a", "b">>
  /\ result.value.name = MethodName(<<"a">>, <<"b">>, <<"a", "b">>)
  /\ result.value.fully_qualified_service = <<"a", ".", "b">>

\* C16 as stated: parse_method_name cuts the path at its first two slashes
\* only, so a path whose method part contains a further slash is parsed,
\* with everything after the second slash as the method.
C16_AsStated ==
  ( /\ result.op = "parse_method_name" /\ result.returned
    /\ Len(result.args.method_name) >= 1 /\ result.args.method_name[1] = "/"
    /\ Slashes(result.args.method_name) > 2) =>
    /\ result.raised = NoEx
    /\ result.value.name.method =
         SubSeq(result.args.method_name,
                SecondSlash(result.args.method_name) + 1,
                Len(result.args.method_name))

\* The slashes of a path, and the segment between two of them.
SlashAt(p) == {k \in 1..Len(p) : p[k] = "/"}
FirstSlash(p) == CHOOSE k \in SlashAt(p) : \A j \in SlashAt(p) : k <= j
LastSlash(p) == CHOOSE k \in SlashAt(p) : \A j \in SlashAt(p) : j <= k

\* C16 (amended): parse_method_name cuts the path at every slash and
\* takes exactly three parts: a path with a further slash in its method
\* part is not parsed but fails with ValueError and yields no MethodName;
\* for a path with exactly two slashes everything after the second is the
\* method, and package and service are bounded only by the last dot of the
\* segment between the slashes.
C16_ExactlyThreeParts ==
  (result.op = "parse_method_name" /\ result.returned) =>
    LET p == result.args.method_name
        v == result.value.name
    IN  /\ Slashes(p) > 2 =>
             /\ result.raised = ValueError("too many values to unpack")
             /\ v = NoMethodName
        /\ Slashes(p) = 2 =>
             LET m == SubSeq(p, FirstSlash(p) + 1, LastSlash(p) - 1)
             IN  /\ result.raised = NoEx
                 /\ v.method = SubSeq(p, LastSlash(p) + 1, Len(p))
                 /\ Dots(v.service) = {}
                 /\ IF Dots(m) = {} THEN v.package = <<>> /\ v.service = m
                    ELSE v.package \o <<".">> \o v.service = m

C16_Witness ==
  /\ result.op = "parse_method_name" /\ result.returned
  /\ result.args.method_name = <<"/", "a", ".", "b", "/", "a", "/">>
  /\ result.raised = ValueError("too many values to unpack")
  /\ result.value.name = NoMethodName

\* C17: parse_method_name raises for every path with fewer than two
\* slashes, and returns no MethodName.
C17_TooFewSlashes ==
  ( /\ result.op = "parse_method_name" /\ result.returned
    /\ Slashes(result.args.method_name) < 2) =>
    /\ result.raised.cls = "ValueError"
    /\ result.value.name = NoMethodName

C17_Witness ==
  /\ result.op = "parse_method_name" /\ result.returned
  /\ result.args.method_name = <<"a", ".", "b", "/", "a">>
  /\ result.raised = ValueError("not enough values to unpack")

\* The first interceptor of the chain whose intercept aborts the call
\* without invoking method.
HasAborting == \E i \in 1..N : chain[i].kind = "Aborting"
FirstAborting ==
  CHOOSE i \in 1..N :
    chain[i].kind = "Aborting" /\ \A j \in 1..(i - 1) : chain[j].kind # "Aborting"
\* The handler was invoked.
HandlerInvoked ==
  \/ handler_request # None
  \/ \E k \in 1..Len(trace) : trace[k].e \in {"called", "body"}

\* C18: when an interceptor's intercept calls context.abort(ABORTED,
\* details) without invoking `method`, neither the handler nor any
\* interceptor after it in the chain is ever invoked for the call, and the
\* caller observes the status ABORTED with those details.
C18_AbortingInterceptor ==
  (call.registered /\ HasAborting) =>
    /\ ~HandlerInvoked
    /\ \A j \in (FirstAborting + 1)..N :
         /\ received[j] = <<>>
         /\ \A k \in 1..Len(trace) : trace[k].i # j
    /\ delivered = <<>>
    /\ pc = "done" =>
         /\ received[FirstAborting] = <<call.method>>
         /\ Failed /\ outcome.ex = AbortError
         /\ ClientStatus = Status("ABORTED", chain[FirstAborting]._message)

C18_Witness ==
  /\ pc = "done" /\ call.registered
  /\ N >= 2 /\ chain[1].kind = "Aborting" /\ chain[2].kind = "Counting"
  /\ received = << <<call.method>>, <<>> >>
  /\ handler_request = None
  /\ ClientStatus = Status("ABORTED", "oh no")

\* An interceptor of the chain rewrites the request before delegating.
HasUppercasing == \E i \in 1..N : chain[i].kind = "Uppercasing"

\* C19: the next handler is called with exactly the request the
\* interceptor passes to `method`, and the runtime gets exactly what
\* intercept returns: under an interceptor that uppercases the request
\* before delegating, the handler observes the uppercased request, not the
\* original, and the caller receives the response computed from it.
C19_RequestRewritten ==
  (call.registered /\ handler_request # None) =>
    /\ handler_request = IF HasUppercasing THEN Upper(call.request)
                         ELSE call.request
    /\ (pc = "done" /\ call.end.t = "return") =>
         /\ Succeeded
         /\ ~Streaming => outcome = Flight("val", handler_request, NoEx)
         /\ Streaming => delivered = SubSeq(Output(handler_request), 1, call.n)

C19_Witness ==
  /\ pc = "done" /\ call.registered /\ ~Streaming
  /\ N >= 2 /\ chain[1].kind = "Uppercasing" /\ chain[2].kind = "Counting"
  /\ call.request = "foo" /\ handler_request = "FOO"
  /\ outcome = Flight("val", "FOO", NoEx)

\* C20 as stated: each interceptor's intercept is invoked exactly once per
\* dispatched call and never during handler resolution, with the wire
\* method path as method_name.
C20_AsStated ==
  /\ pc \in {"resolve_down", "resolve_up"} =>
       \A i \in 1..N : received[i] = <<>>
  /\ (pc = "done" /\ call.registered) =>
       \A i \in 1..N : received[i] = <<call.method>>

\* C20 (amended): each interceptor's intercept is invoked at most once per
\* dispatched call, and exactly once unless an interceptor before it in
\* the chain ended the call without invoking `method`; never during
\* handler resolution nor for a call without handler; the method_name it
\* receives is the wire method path of the call unchanged, at every chain
\* position; and every interceptor has received it before the handler
\* runs.
C20_InterceptOncePerCall ==
  /\ (pc \in {"resolve_down", "resolve_up"} \/ ~call.registered) =>
       \A i \in 1..N : received[i] = <<>>
  /\ \A i \in 1..N : received[i] \in {<<>>, <<call.method>>}
  /\ HandlerInvoked => \A i \in 1..N : received[i] = <<call.method>>
  /\ (pc = "done" /\ call.registered) =>
       \A i \in 1..N :
         received[i] = IF \E j \in 1..(i - 1) : chain[j].kind = "Aborting"
                       THEN <<>> ELSE <<call.method>>

C20_Witness ==
  /\ pc = "done" /\ call.registered /\ aio /\ Streaming
  /\ N >= 2 /\ chain[1].kind = "StreamingLogging" /\ chain[2].kind = "Counting"
  /\ received = << <<"/DummyService/ExecuteServerStream">>,
                   <<"/DummyService/ExecuteServerStream">> >>
  /\ num_calls[2] = 1

\* Every interceptor of the chain is `async def` and hands on what method
\* produces: as a coroutine returning method's async-iterable, or as an
\* async generator re-yielding its items.
EitherStyle ==
  \A i \in 1..N : chain[i].kind \in {"Counting", "StreamingLogging"}
\* What the handler's own generator gives to whoever iterates it.
DirectItems == SubSeq(Output(call.request), 1, call.n)
DirectEnd ==
  IF call.end.t = "return" THEN Flight("stop", None, NoEx)
  ELSE Flight("exc", None, Original)

\* C21: on an asyncio server, for a response-streaming method behind
\* interceptors of either style (a coroutine returning the async-iterable
\* of `method`, or an async generator re-yielding its items), the handler
\* the adapter built returns a generator to the runtime, and iterating it
\* gives the runtime exactly the items and the ending of the servicer's
\* own generator, whichever style each interceptor has.
C21_StyleIndependent ==
  (aio /\ call.registered /\ Streaming /\ EitherStyle /\ N >= 1) =>
    /\ (pc = "call_up" /\ pos = 0) => flight.t = "gen"
    /\ pc = "done" => delivered = DirectItems /\ outcome = DirectEnd

C21_Witness ==
  /\ aio /\ Streaming /\ pc = "done" /\ N = 2
  /\ chain[1].kind = "Counting" /\ chain[2].kind = "StreamingLogging"
  /\ delivered = <<"f", "o">>
  /\ outcome = Flight("stop", None, NoEx)

\* C22 as stated: a cancellation that interrupts the handler of an async
\* call, before its response or at an item of its response stream, passes
\* through the translators of the chain untouched: handle_exception is
\* never invoked for it, no status is set on the context because of it,
\* and the runtime receives the CancelledError itself.
C22_CancellationNotTranslated ==
  (aio /\ call.end.t = "cancel") =>
    /\ Handled = <<>>
    /\ ctx = NewContext
    /\ pc = "done" => outcome = Flight("exc", None, CancelledError)

HasExtended == \E i \in 1..N : IsExtended(chain[i])
InnermostExtended ==
  CHOOSE i \in 1..N : IsExtended(chain[i]) /\ \A j \in (i + 1)..N : ~IsExtended(chain[j])

\* C23: a translator subclass that overrides handle_exception has its
\* override called exactly once for a failure of the call, raised where
\* `method` is invoked or while the response stream is iterated, and not
\* at all for a call that succeeds; when the handler raises the exception
\* the override special-cases, the caller observes the override's status
\* and details; and for every other exception the override leaves the
\* context and raises exactly as the base handle_exception does.
C23_OverrideConsulted ==
  /\ [](( /\ pc = "done" /\ call.registered) =>
          Handled = IF HandlerFails THEN TranslatorsUpTo(N) ELSE <<>>)
  /\ [](( /\ pc = "done" /\ call.end = Raise(NonGrpcException) /\ HasExtended) =>
          /\ Failed
          /\ ClientStatus = Status(TEST_STATUS_CODE, TEST_DETAILS)
          /\ \A i \in 1..N : IsExtended(chain[i]) =>
                (chain[i].caught_custom_exception <=> i = InnermostExtended))
  /\ [][( /\ TranslatorHandling /\ IsExtended(HandlingSelf)
          /\ flight.ex.cls # "NonGrpcException") =>
          /\ ctx' = handle_exception(HandlingSelf, flight.ex, ctx).context
          /\ flight' = Flight("exc", None,
                              handle_exception(HandlingSelf, flight.ex, ctx).raised)
          /\ chain' = chain]_vars

C23_Witness ==
  /\ pc = "done" /\ aio /\ Streaming /\ call.n >= 1
  /\ Len(delivered) = call.n
  /\ call.end = Raise(NonGrpcException)
  /\ N = 2 /\ IsExtended(chain[1]) /\ IsExtended(chain[2])
  /\ chain[2].caught_custom_exception /\ ~chain[1].caught_custom_exception
  /\ Handled = <<Event("handle_exception", 2), Event("handle_exception", 1)>>
  /\ ctx = Status("DATA_LOSS", "Here's some custom details")

\* The status of the innermost translator or abort call that runs in the
\* call: the abort of the first aborting interceptor, which keeps
\* everything further in from running; else the handler's own abort; else
\* what the innermost translator that sets a status for the handler's
\* exception sets; UNKNOWN when none does.
InnermostStatus ==
  IF HasAborting THEN Status("ABORTED", "oh no")
  ELSE IF call.end.t = "abort" THEN HandlerContext
  ELSE IF IsGrpcException(call.end.ex)
       THEN IF HasTranslator
            THEN Status(call.end.ex.status_code, call.end.ex.details)
            ELSE Status("UNKNOWN", None)
       ELSE IF \E i \in 1..N : HasFallback(i)
            THEN Status(chain[InnermostFallback]._status_on_unknown_exception,
                        Repr(call.end.ex))
            ELSE Status("UNKNOWN", None)

\* C24: in a chain of translators and aborting interceptors, a status set
\* on the context is never changed afterwards by anything further out, and
\* the caller of a failed call observes the status set by the innermost
\* translator or abort call that ran, UNKNOWN when nothing set one.
C24_InnermostStatusWins ==
  /\ [][ctx.code # None => ctx' = ctx]_vars
  /\ [](( /\ pc = "done" /\ call.registered
          /\ (HasAborting \/ call.end.t # "return")) =>
          (Failed /\ ClientStatus = InnermostStatus))

C24_Witness ==
  /\ pc = "done" /\ N = 2
  /\ chain[1] = ExceptionToStatusInterceptor("INTERNAL").self
  /\ chain[2] = ExceptionToStatusInterceptor("UNAVAILABLE").self
  /\ call.end = Raise(ValueError("oops"))
  /\ Handled = <<Event("handle_exception", 2), Event("handle_exception", 1)>>
  /\ ClientStatus = Status("UNAVAILABLE", "ValueError('oops')")

\* What the documentation of ExceptionToStatusInterceptor says of a call,
\* whatever the server it runs on: the handler's result passes the
\* interceptors from the innermost outwards, and every translator sends an
\* exception through handle_exception.
RECURSIVE ThroughChain(_, _)
ThroughChain(i, r) ==
  IF i = 0 THEN r
  ELSE ThroughChain(i - 1,
         IF /\ chain[i].kind = "ExceptionToStatus"
            /\ r.out.t = "exc" /\ IsException(r.out.ex)
         THEN LET h == self_handle_exception(chain[i], r.out.ex, r.context)
              IN  [out |-> Flight("exc", None, h.raised), context |-> h.context]
         ELSE r)
Documented ==
  LET r == ThroughChain(N, HandlerEnd(call.request, NewContext))
  IN  [context |-> r.context,
       delivered |-> IF Streaming THEN SubSeq(Letters, 1, call.n) ELSE <<>>,
       outcome |-> IF Streaming /\ r.out.t = "val"
                   THEN Flight("stop", None, NoEx) ELSE r.out]

\* C25: for every handler behaviour (success, a GrpcException, another
\* exception, a failure before the first item or mid-stream, a context
\* the handler aborted) and every fallback configuration, a call ends
\* with the same context code and details, the same delivered items and
\* the same outcome on an asyncio server with the async translator as on
\* a sync server with the sync one: both end as documented for the sync
\* class.
C25_AsyncAnalogue ==
  (pc = "done" /\ call.registered) =>
    /\ ctx = Documented.context
    /\ delivered = Documented.delivered
    /\ outcome = Documented.outcome

C25_Witness ==
  /\ pc = "done" /\ aio /\ Streaming /\ N = 2
  /\ chain[1] = ExceptionToStatusInterceptor("INTERNAL").self
  /\ chain[2] = ExceptionToStatusInterceptor(None).self
  /\ call.n = 1 /\ delivered = <<"f">>
  /\ call.end = Raise(ValueError("oops"))
  /\ ctx = Status("INTERNAL", "ValueError('oops')")
  /\ outcome = Flight("exc", None, AbortError)

(***************************************************************************)
(* C26                                                                     *)
(***************************************************************************)
\* What the continuation of the entry point of interceptor i was called
\* with: the arguments of the next entry point, or what the channel sent.
ContinuationArgs(i) == IF i < Len(frames) THEN frames[i + 1].args ELSE wire[1]

\* The request that intercept returned, as the shape of the call has it: the
\* returned iterator for a streaming request, its one message otherwise.
ReturnedRequest(i) ==
  IF rpc.shape.request_streaming THEN frames[i].returned.request_iterator
  ELSE next(frames[i].returned.request_iterator)

\* The callbacks returned by interceptors cpos+1..M, innermost first.
RECURSIVE CallbacksFrom(_)
CallbacksFrom(i) ==
  IF i > Len(frames) THEN <<>>
  ELSE CallbacksFrom(i + 1) \o
       (IF frames[i].returned.postprocess # None
        THEN <<frames[i].returned.postprocess>> ELSE <<>>)

\* C26: in each of the four entry points the continuation is called with
\* exactly the call details and the request (or request iterator) that
\* intercept returned; the entry point returns postprocess(response) when
\* intercept returned a callback and the continuation's response unchanged
\* otherwise; a callback is applied exactly once, and only after the
\* continuation was called.
C26_AdapterContract ==
  /\ [](\A i \in 1..Len(frames) :
          (i < Len(frames) \/ wire # <<>>) =>
            /\ ContinuationArgs(i).call_details = frames[i].returned.call_details
            /\ ContinuationArgs(i).request = ReturnedRequest(i))
  /\ [][cpc = "up" /\ cpos \in 1..M /\ cpos' = cpos - 1 =>
          cflight' = IF frames[cpos].returned.postprocess # None
                     THEN postprocess(frames[cpos].returned.postprocess, cflight)
                     ELSE cflight]_vars
  /\ [](cpc = "down" => \A k \in 1..Len(ctrace) : ctrace[k].e # "postprocess")
  /\ [](cpc \in {"up", "done"} => cflight.post = CallbacksFrom(cpos + 1))

\* A call through two interceptors, one of which replaced the metadata and
\* one of which returned a callback, has returned to the caller.
C26_Witness ==
  /\ cpc = "done"
  /\ M = 2
  /\ \E i \in 1..2 : frames[i].returned.call_details # frames[i].args.call_details
  /\ \E i \in 1..2 : frames[i].returned.postprocess # None
  /\ ~rpc.shape.request_streaming
  /\ ~rpc.shape.response_streaming

(***************************************************************************)
(* C27                                                                     *)
(***************************************************************************)
\* Every interceptor of the channel returns its inputs and no callback.
AllReturning == \A i \in 1..M : client_interceptors[i] = ReturningInterceptor

\* C27: in all four call shapes the request_iterator handed to intercept
\* yields exactly the request message(s) the caller supplied, and with
\* interceptors that return their inputs the channel receives exactly the
\* caller's request.
C27_RequestIteratorYieldsMessages ==
  /\ frames # <<>> => frames[1].handed = Iterator(rpc.request.items)
  /\ (AllReturning /\ wire # <<>>) => wire[1].request = rpc.request

(***************************************************************************)
(* C28                                                                     *)
(***************************************************************************)
\* Interceptor i returns a callback from intercept.
ReturnsCallback(i) == client_interceptors[i].kind = "Postprocessing"

\* The events of one call through interceptors i..M: intercept of each in
\* order, the call leaving the process, then the callbacks in reverse.
RECURSIVE CallEvents(_)
CallEvents(i) ==
  IF i > M THEN <<Event("rpc", M + 1)>>
  ELSE <<Event("intercept", i)>> \o CallEvents(i + 1) \o
       (IF ReturnsCallback(i) THEN <<Event("postprocess", i)>> ELSE <<>>)

\* The names of the callbacks of interceptors i..M, innermost first.
RECURSIVE CallbackNames(_)
CallbackNames(i) ==
  IF i > M THEN <<>>
  ELSE CallbackNames(i + 1) \o
       (IF ReturnsCallback(i) THEN <<client_interceptors[i]._name>> ELSE <<>>)

\* The number of intercept events of interceptor i.
Observed(i) ==
  Cardinality({k \in 1..Len(ctrace) : ctrace[k] = Event("intercept", i)})

\* C28: for interceptors registered as [C1, ..., CN] the intercept callbacks
\* of a call run in the order C1, ..., CN before the call leaves the
\* process and the callbacks on the response run in the order CN, ..., C1;
\* every interceptor observes every attempt that reaches the channel.
C28_ClientOrdering ==
  /\ Len(ctrace) <= Len(CallEvents(1))
  /\ ctrace = SubSeq(CallEvents(1), 1, Len(ctrace))
  /\ cpc = "done" =>
       /\ ctrace = CallEvents(1)
       /\ reply.post = CallbackNames(1)
  /\ \A i \in 1..M : wire # <<>> => Observed(i) = Len(wire)

\* A call through two interceptors that both return a callback has
\* returned to the caller.
C28_Witness ==
  /\ cpc = "done"
  /\ M = 2
  /\ ReturnsCallback(1)
  /\ ReturnsCallback(2)
  /\ client_interceptors[1] # client_interceptors[2]
  /\ Len(wire) = 1

(***************************************************************************)
(* C29                                                                     *)
(***************************************************************************)
\* The kinds of the interceptors of the channel, in order.
Kinds == [i \in 1..M |-> client_interceptors[i].kind]

Least(a, b) == IF a <= b THEN a ELSE b

\* The count a CodeCountInterceptor holds for a code.
CountOf(counts, code) == IF code \in DOMAIN counts THEN counts[code] ELSE 0

\* The first call of the channel is Execute(DummyRequest(input="error")).
FirstCallCrashes == Len(issued) = 1 /\ issued[1] = Message("error")

\* C29: through a RetryInterceptor built for r retries, a call whose
\* handler crashes the first c times is attempted again with the same call
\* details and request until it succeeds or 1 + r attempts were made: with
\* r = 1 it succeeds after exactly 2 attempts when c = 1 and fails after
\* exactly 2 attempts when c = 2. The limit is the interceptor's own; an
\* interceptor behind it observes every attempt.
C29_RetryAttempts ==
  (/\ Kinds \in {<<"Retry">>, <<"Retry", "CodeCount">>}
   /\ FirstCallCrashes) =>
    LET r == client_interceptors[1]._retries
        c == servicer.num_crashes
    IN  /\ Len(wire) <= Least(1 + r, 1 + c)
        /\ \A k \in 1..Len(wire) : wire[k] = Args(rpc.call_details, rpc.request)
        /\ cpc = "done" =>
             /\ Len(wire) = Least(1 + r, 1 + c)
             /\ reply.code = IF c <= r THEN "OK" ELSE "UNKNOWN"
             /\ reply.code = "OK" => reply.items = <<"OK">>
             /\ M = 2 =>
                  /\ CountOf(client_interceptors[2].counts, "UNKNOWN")
                       = Least(1 + r, c)
                  /\ CountOf(client_interceptors[2].counts, "OK")
                       = IF c <= r THEN 1 ELSE 0

\* RetryInterceptor(retries=1) over CrashingService(num_crashes=1): the
\* call has returned the success after two attempts.
C29_Witness ==
  /\ Kinds = <<"Retry">>
  /\ client_interceptors[1]._retries = 1
  /\ servicer.num_crashes = 1
  /\ FirstCallCrashes
  /\ cpc = "done"
  /\ Len(wire) = 2
  /\ reply.code = "OK"

(***************************************************************************)
(* C30                                                                     *)
(***************************************************************************)
\* The number of calls the first interceptor made of its continuation: the
\* calls of the second interceptor, or of the channel if there is none.
UnderlyingCalls ==
  Cardinality({k \in 1..Len(ctrace) : ctrace[k].i = 2})

\* The distinct request contents issued on the channel.
DistinctContents == {issued[k] : k \in 1..Len(issued)}

\* C30: behind a CachingInterceptor the number of calls that reach the next
\* interceptor or the server is the number of distinct request contents
\* issued: a repeated input is answered without calling the continuation.
C30_CachingCalls ==
  (M >= 1 /\ client_interceptors[1].kind = "Caching") =>
    /\ UnderlyingCalls <= Cardinality(DistinctContents)
    /\ cpc \in {"idle", "done"} => UnderlyingCalls = Cardinality(DistinctContents)
    /\ cpc = "done" =>
         reply = client_interceptors[1]._cache[cache_key(rpc.request)]

\* CachingInterceptor before CodeCountInterceptor: hello, hello and a
\* stream were issued, and the counter saw two calls.
C30_Witness ==
  /\ Kinds = <<"Caching", "CodeCount">>
  /\ cpc = "done"
  /\ Len(issued) = 3
  /\ issued[1] = issued[2]
  /\ issued[3] # issued[1]
  /\ CountOf(client_interceptors[2].counts, "OK") = 2

(***************************************************************************)
(* C33                                                                     *)
(***************************************************************************)
\* The entry point grpc calls for a stub method of a shape.
EntryOf(shape) ==
  IF shape.request_streaming
  THEN IF shape.response_streaming THEN "intercept_stream_stream"
       ELSE "intercept_stream_unary"
  ELSE IF shape.response_streaming THEN "intercept_unary_stream"
       ELSE "intercept_unary_unary"

\* C33: every entry point calls intercept with the pair of booleans of its
\* shape: intercept_unary_unary (False, False), intercept_unary_stream
\* (False, True), intercept_stream_unary (True, False),
\* intercept_stream_stream (True, True); for the unary-request shapes the
\* request_iterator holds exactly the one request.
C33_ShapeBooleans ==
  \A i \in 1..Len(frames) :
    LET f == frames[i]
    IN  /\ f.entry = EntryOf(rpc.shape)
        /\ f.request_streaming =
             (f.entry \in {"intercept_stream_unary", "intercept_stream_stream"})
        /\ f.response_streaming =
             (f.entry \in {"intercept_unary_stream", "intercept_stream_stream"})
        /\ f.entry \in {"intercept_unary_unary", "intercept_unary_stream"} =>
             /\ f.handed.depth = 1
             /\ Len(f.handed.items) = 1
             /\ Message(f.handed.items[1]) = f.args.request

\* A server-streaming call through two interceptors has returned.
C33_Witness ==
  /\ cpc = "done"
  /\ M = 2
  /\ Len(frames) = 2
  /\ frames[2].entry = "intercept_unary_stream"
  /\ frames[2].response_streaming
  /\ ~frames[2].request_streaming

(***************************************************************************)
(* C34                                                                     *)
(***************************************************************************)
\* The number of times the continuation of interceptor i was called: the
\* calls of the next entry point, or of the channel behind the last.
ContinuationCalls(i) ==
  Cardinality({k \in 1..Len(ctrace) :
                 ctrace[k].i = i + 1 /\ ctrace[k].e \in {"intercept", "rpc"}})

\* intercept of interceptor i returned a request the entry point can pass
\* on: any iterator for a streaming request, one with an item otherwise.
Usable(i) ==
  \/ rpc.shape.request_streaming
  \/ frames[i].returned.request_iterator.items # <<>>

\* The entry point of interceptor i has ended.
Ended(i) == i <= Len(frames) /\ cpc \in {"up", "done"} /\ cpos < i

\* C34: in each of the four entry points one invocation calls intercept
\* exactly once and then, if intercept returned a usable request, the
\* continuation exactly once, whatever intercept returned: the
\* continuation is never skipped and never called twice.
C34_OnceEach ==
  \A i \in 1..M :
    /\ Observed(i) = IF i <= Len(frames) THEN 1 ELSE 0
    /\ ContinuationCalls(i) <= 1
    /\ (Ended(i) /\ Usable(i)) => ContinuationCalls(i) = 1

\* A call through an interceptor that replaced the request and one that
\* returned a callback has returned to the caller.
C34_Witness ==
  /\ cpc = "done"
  /\ M = 2
  /\ client_interceptors[1].kind \in {"Replacing", "Appending"}
  /\ client_interceptors[2].kind = "Postprocessing"
  /\ Usable(1)
  /\ Usable(2)
  /\ ContinuationCalls(2) = 1
  /\ Len(wire) = 1

(***************************************************************************)
(* C35                                                                     *)
(***************************************************************************)
\* C35: for the unary-request shapes the continuation receives only the
\* first item of the iterator intercept returned; if that iterator has no
\* item the entry point fails before calling the continuation, no call
\* leaves the process and the callback intercept returned is not applied.
C35_FirstItemOnly ==
  \A i \in 1..Len(frames) :
    ~rpc.shape.request_streaming =>
      LET it == frames[i].returned.request_iterator
      IN  IF it.items = <<>>
          THEN /\ frames[i].raised
               /\ ContinuationCalls(i) = 0
               /\ wire = <<>>
               /\ \A k \in 1..Len(ctrace) : ctrace[k] # Event("postprocess", i)
               /\ cpc \in {"up", "done"} =>
                    \A k \in 1..Len(cflight.post) :
                      cflight.post[k] # frames[i].returned.postprocess
          ELSE (i < Len(frames) \/ wire # <<>>) =>
                 ContinuationArgs(i).request = Message(it.items[1])

\* A unary call went through an interceptor that appended an item and one
\* that returned an empty iterator, and has returned to the caller.
C35_Witness ==
  /\ cpc = "done"
  /\ ~rpc.shape.request_streaming
  /\ M = 2
  /\ client_interceptors[1].kind = "Appending"
  /\ client_interceptors[2].kind = "Emptying"
  /\ Len(frames) = 2
  /\ Len(frames[1].returned.request_iterator.items) = 2
  /\ frames[2].raised

(***************************************************************************)
(* C37                                                                     *)
(***************************************************************************)
\* A translator runs handle_exception in this step.
HandlesException ==
  \E i \in 1..N : trace' = Append(trace, Event("handle_exception", i))

\* C37: when a GrpcException reaches a translator the status code and the
\* details of the context become the exception's, whatever code the context
\* carried; only for another exception does a code that is already set
\* keep the translator from setting a status.
C37_GrpcExceptionOverrides ==
  /\ [][HandlesException =>
          IF IsGrpcException(flight.ex)
          THEN ctx' = Status(flight.ex.status_code, flight.ex.details)
          ELSE ctx.code # None => ctx' = ctx]_vars
  /\ []((pc = "done" /\ call.registered /\ call.end.t = "set_status") =>
          ClientStatus = IF IsGrpcException(call.end.ex)
                         THEN Status(call.end.ex.status_code, call.end.ex.details)
                         ELSE Status(call.end.code, call.end.details))

\* The handler set ABORTED and raised NotFound; the call ended with the
\* status of NotFound.
C37_Witness ==
  /\ pc = "done"
  /\ call.registered
  /\ call.end.t = "set_status"
  /\ IsGrpcException(call.end.ex)
  /\ call.end.code # call.end.ex.status_code
  /\ ClientStatus = Status(call.end.ex.status_code, call.end.ex.details)
  /\ Handled # <<>>

(***************************************************************************)
(* C38                                                                     *)
(***************************************************************************)
\* Instance k was constructed without overrides.
NoOverrides(k) ==
  /\ exceptions.instances[k].created.details = None
  /\ exceptions.instances[k].created.status_code = None

\* C38: overrides given to a constructor are per instance: after any
\* constructions with overrides an instance constructed without them has
\* the status_code and details its class defines, every instance has its
\* own override where it was given one, and constructing one more leaves
\* the existing instances as they were.
C38_PerInstanceOverrides ==
  /\ [](\A k \in 1..Len(exceptions.instances) :
          LET o == exceptions.instances[k]
          IN  /\ getattr(exceptions, k, "status_code") =
                   IF o.created.status_code # None THEN o.created.status_code
                   ELSE ClassStatusCode[o.cls]
              /\ getattr(exceptions, k, "details") =
                   IF o.created.details # None THEN o.created.details
                   ELSE ClassDetails[o.cls]
              /\ getattr(exceptions, k, "status_code") =
                   GrpcException(o.cls, o.created.details,
                                 o.created.status_code).self.status_code)
  /\ [][\A k \in 1..Len(exceptions.instances) :
          /\ getattr(exceptions', k, "status_code") =
               getattr(exceptions, k, "status_code")
          /\ getattr(exceptions', k, "details") = getattr(exceptions, k, "details")
       ]_vars

\* NotFound with both overrides, then NotFound without: the second has the
\* defaults of the class.
C38_Witness ==
  /\ Len(exceptions.instances) >= 2
  /\ exceptions.instances[1].cls = "NotFound"
  /\ exceptions.instances[1].created = [details |-> "custom", status_code |-> "DATA_LOSS"]
  /\ exceptions.instances[2].cls = "NotFound"
  /\ NoOverrides(2)
  /\ getattr(exceptions, 1, "status_code") = "DATA_LOSS"
  /\ getattr(exceptions, 2, "status_code") = "NOT_FOUND"
  /\ getattr(exceptions, 2, "details") = ClassDetails["NotFound"]

(***************************************************************************)
(* C32                                                                     *)
(***************************************************************************)
\* The call shape of a handler: its first slot that is not empty, in the
\* order unary-unary, unary-stream, stream-unary, stream-stream.
ShapeOfHandler(h) ==
  IF h.unary_unary # Empty THEN "unary_unary"
  ELSE IF h.unary_stream # Empty THEN "unary_stream"
  ELSE IF h.stream_unary # Empty THEN "stream_unary"
  ELSE "stream_stream"

\* The behaviour in the slot of a handler's shape.
BehaviourOf(h) ==
  CASE ShapeOfHandler(h) = "unary_unary" -> h.unary_unary
    [] ShapeOfHandler(h) = "unary_stream" -> h.unary_stream
    [] ShapeOfHandler(h) = "stream_unary" -> h.stream_unary
    [] OTHER -> h.stream_stream

\* The slots of a handler that are not empty.
FilledSlots(h) ==
  {n \in {"unary_unary", "unary_stream", "stream_unary", "stream_stream"} :
     h[n] # Empty}

\* C32: the handler intercept_service returns has the call shape of the
\* next handler, the shape of its first non-empty slot, and the next
\* handler's request deserializer and response serializer, with either
\* adapter and at every position of the chain.
C32_SameShape ==
  \A i \in (DOMAIN handlers) \ {N + 1} :
    /\ ShapeOfHandler(handlers[i]) = ShapeOfHandler(handlers[i + 1])
    /\ FilledSlots(handlers[i]) = {ShapeOfHandler(handlers[i + 1])}
    /\ handlers[i].request_streaming =
         (ShapeOfHandler(handlers[i + 1]) \in {"stream_unary", "stream_stream"})
    /\ handlers[i].response_streaming =
         (ShapeOfHandler(handlers[i + 1]) \in {"unary_stream", "stream_stream"})
    /\ handlers[i].request_deserializer = handlers[i + 1].request_deserializer
    /\ handlers[i].response_serializer = handlers[i + 1].response_serializer
    /\ Tail(BehaviourOf(handlers[i])) = BehaviourOf(handlers[i + 1])

\* Two interceptors have wrapped a server-streaming handler with
\* converters.
C32_Witness ==
  /\ pos = 0
  /\ N = 2
  /\ ShapeOfHandler(handlers[3]) = "unary_stream"
  /\ ShapeOfHandler(handlers[1]) = "unary_stream"
  /\ handlers[3].request_deserializer = "FromString"
  /\ handlers[1].request_deserializer = "FromString"
  /\ Len(BehaviourOf(handlers[1])) = 3

\* The call reached a handler of the read/write API, which returned None
\* to the innermost intercept.
ReadWriteCall ==
  /\ N >= 1
  /\ call # NoCall
  /\ call.end.t = "write"
  /\ handler_request # None

\* C36: for a response-streaming method on the asyncio adapter, when the
\* awaited intercept gives None (the handler of the read/write API wrote
\* its responses through the context), no generator of the call yields an
\* item, the call completes normally without an exception, and the client
\* gets exactly the responses the handler wrote.
C36_NoneEndsStream ==
  ReadWriteCall =>
    /\ flight.t \notin {"item", "exc"}
    /\ delivered = Written(handler_request)
    /\ pc = "done" => outcome.t = "stop"

C36_Witness ==
  /\ ReadWriteCall
  /\ pc = "done"
  /\ N = 2
  /\ outcome.t = "stop"
  /\ Len(delivered) = MaxItems

\* ------------------------------------------------------------------
\* One interceptor instance shared by calls in flight at the same time.
\* Each call of intercept_service has its own frame, whose locals
\* (handler_call_details, next_handler_method) the closure it returns
\* reads when the runtime invokes it. `inflight` holds the frames
\* (cells), the calls and the log of what self.intercept was given.

MaxConcurrent == 2

ConcurrentCalls == 1..MaxConcurrent

ServiceMethods ==
  {"/DummyService/Execute", "/DummyService/ExecuteServerStream"}

\* The behaviour registered for a method, which continuation() finds.
Behaviour(method) == <<"servicer", method>>

\* The context object the runtime makes for a call.
ContextOf(c) == <<"context", c>>

\* Faulty adapter: the locals are kept on the interceptor instance, so
\* every call writes the same cell.
NewCell_OnSelf(cells) == 1

\* The frame of one intercept_service invocation: a new one each time.
NewCell(cells) == Len(cells) + 1

\* Writing a cell at k: a new one is appended, an old one overwritten.
Store(cells, k, v) ==
  IF k > Len(cells) THEN Append(cells, v) ELSE [cells EXCEPT ![k] = v]

InitConcurrent ==
  /\ NoClient
  /\ NoServerCall
  /\ result = NoResult
  /\ exceptions = [classes |-> ClassAttrs, instances |-> <<>>]
  /\ harness = [pc |-> "none"]
  /\ \E ms \in [ConcurrentCalls -> ServiceMethods],
        rs \in [ConcurrentCalls -> {"foo", "bar"}] :
       inflight =
         [cells |-> <<>>,
          calls |-> [c \in ConcurrentCalls |->
                      [method |-> ms[c], request |-> rs[c],
                       context |-> ContextOf(c), pc |-> "new", cell |-> 0]],
          log |-> <<>>]

\* The runtime calls intercept_service(continuation, handler_call_details)
\* for call c: a frame is made holding handler_call_details, and the
\* continuation is called (awaited on the asyncio server).
ServiceEnter(c) ==
  /\ inflight.calls[c].pc = "new"
  /\ LET k == NewCell(inflight.cells)
     IN  inflight' =
           [inflight EXCEPT
              !.cells = Store(@, k,
                 [handler_call_details |->
                    [method |-> inflight.calls[c].method],
                  next_handler_method |-> None]),
              !.calls[c].pc = "continuation",
              !.calls[c].cell = k]
  /\ UNCHANGED <<serverVars, result, exceptions, harness>>

\* The continuation returned the next handler: _get_factory_and_method
\* gives its behaviour, and handler_factory returns a handler around
\* the closure invoke_intercept_method.
ServiceExit(c) ==
  /\ inflight.calls[c].pc = "continuation"
  /\ LET k == inflight.calls[c].cell
     IN  inflight' =
           [inflight EXCEPT
              !.cells[k].next_handler_method =
                 Behaviour(inflight.cells[k].handler_call_details.method),
              !.calls[c].pc = "handler"]
  /\ UNCHANGED <<serverVars, result, exceptions, harness>>

\* The runtime invokes the closure with the request and the context of
\* call c: it reads method_name and next_handler_method from its frame
\* and calls self.intercept with them.
ClosureCall(c) ==
  /\ inflight.calls[c].pc = "handler"
  /\ LET f == inflight.cells[inflight.calls[c].cell]
         method_name == f.handler_call_details.method
     IN  inflight' =
           [inflight EXCEPT
              !.log = Append(@, [call |-> c,
                                 method |-> f.next_handler_method,
                                 request |-> inflight.calls[c].request,
                                 context |-> inflight.calls[c].context,
                                 method_name |-> method_name]),
              !.calls[c].pc = "intercept"]
  /\ UNCHANGED <<serverVars, result, exceptions, harness>>

\* self.intercept of call c returns and the call completes.
ClosureReturn(c) ==
  /\ inflight.calls[c].pc = "intercept"
  /\ inflight' = [inflight EXCEPT !.calls[c].pc = "done"]
  /\ UNCHANGED <<serverVars, result, exceptions, harness>>

NextConcurrent ==
  \/ \E c \in ConcurrentCalls : ServiceEnter(c)
  \/ \E c \in ConcurrentCalls : ServiceExit(c)
  \/ \E c \in ConcurrentCalls : ClosureCall(c)
  \/ \E c \in ConcurrentCalls : ClosureReturn(c)

SpecConcurrent == InitConcurrent /\ [][NextConcurrent]_vars

\* C31: with one interceptor instance shared by interleaved calls, every
\* invocation of intercept is given the request, the context, the next
\* handler and the method name of its own call, in every interleaving of
\* calls to the same or to different methods.
C31_OwnArguments ==
  \A k \in 1..Len(inflight.log) :
    LET e == inflight.log[k]
        c == inflight.calls[e.call]
    IN  /\ e.request = c.request
        /\ e.context = c.context
        /\ e.method_name = c.method
        /\ e.method = Behaviour(c.method)

\* Two calls to different methods with different requests, the second
\* entering intercept_service after the first and reaching intercept
\* before it.
C31_Witness ==
  /\ Len(inflight.log) = 2
  /\ inflight.log[1].call = 2
  /\ inflight.log[2].call = 1
  /\ inflight.calls[1].cell = 1
  /\ inflight.calls[1].method # inflight.calls[2].method
  /\ inflight.calls[1].request # inflight.calls[2].request

\* ------------------------------------------------------------------
\* dummy_channel: the context manager of the testing module, with the
\* thread that runs the asyncio server. `harness` holds the arguments,
\* the position of the caller's thread (pc), the server, the server
\* thread and the channel.

InitHarness ==
  /\ NoClient
  /\ NoServerCall
  /\ result = NoResult
  /\ exceptions = [classes |-> ClassAttrs, instances |-> <<>>]
  /\ inflight = [cells |-> <<>>, calls |-> <<>>, log |-> <<>>]
  /\ \E as, ac, rw, ci, br \in BOOLEAN :
       harness = [pc |-> "enter",
                  aio_server |-> as, aio_client |-> ac,
                  aio_read_write |-> rw, client_interceptors |-> ci,
                  body_raises |-> br,
                  server |-> "none", aio_thread |-> "none",
                  channel |-> "none", async_channel |-> FALSE,
                  raised |-> None]

\* How the context manager is left: by the exception in flight, if any.
Leave(raised) == IF raised = None THEN "exited" ELSE "raised"

\* if aio_server: aio_thread.start() ... else: server.start()
StartServer ==
  /\ harness.pc = "enter"
  /\ harness' = IF harness.aio_server
                THEN [harness EXCEPT !.aio_thread = "started",
                                     !.pc = "wait_for_server"]
                ELSE [harness EXCEPT !.server = "running", !.pc = "connect"]
  /\ UNCHANGED <<serverVars, result, exceptions, inflight>>

\* _AsyncServerThread.__run_server up to self.__started.set().
RunServer ==
  /\ harness.aio_thread = "started"
  /\ harness' = [harness EXCEPT !.server = "running",
                                !.aio_thread = "serving"]
  /\ UNCHANGED <<serverVars, result, exceptions, inflight>>

\* aio_thread.wait_for_server() returns once the event is set.
WaitForServer ==
  /\ harness.pc = "wait_for_server"
  /\ harness.aio_thread = "serving"
  /\ harness' = [harness EXCEPT !.pc = "connect"]
  /\ UNCHANGED <<serverVars, result, exceptions, inflight>>

\* The channel is made and the arguments are checked, before the try.
Connect ==
  /\ harness.pc = "connect"
  /\ harness' =
       IF harness.aio_client
       THEN IF harness.client_interceptors
            THEN [harness EXCEPT !.channel = "open", !.raised = "TypeError",
                                 !.pc = "raised"]
            ELSE IF ~harness.aio_server
                 THEN [harness EXCEPT !.channel = "open",
                                      !.raised = "ValueError",
                                      !.pc = "raised"]
                 ELSE [harness EXCEPT !.channel = "open",
                                      !.async_channel = TRUE,
                                      !.pc = "body"]
       ELSE [harness EXCEPT !.channel = "open", !.pc = "body"]
  /\ UNCHANGED <<serverVars, result, exceptions, inflight>>

\* yield channel: the body of the with statement runs, and ends
\* normally or by an exception.
Body ==
  /\ harness.pc = "body"
  /\ harness' = [harness EXCEPT
                   !.raised = IF harness.body_raises THEN "body" ELSE None,
                   !.pc = "finally"]
  /\ UNCHANGED <<serverVars, result, exceptions, inflight>>

\* finally: the channel of a synchronous client is closed; the asyncio
\* server thread is asked to stop and joined, a synchronous server stopped.
Finally ==
  /\ harness.pc = "finally"
  /\ LET h == IF harness.aio_client THEN harness
              ELSE [harness EXCEPT !.channel = "closed"]
     IN  harness' = IF harness.aio_server
                    THEN [h EXCEPT !.aio_thread = "shutdown", !.pc = "join"]
                    ELSE [h EXCEPT !.server = "stopped",
                                   !.pc = Leave(harness.raised)]
  /\ UNCHANGED <<serverVars, result, exceptions, inflight>>

\* _AsyncServerThread.__shutdown and the end of __run_server on the
\* server's loop: the server stops; the asynchronous channel is closed
\* when __run_server gets to it before the loop is stopped.
Shutdown ==
  /\ harness.aio_thread = "shutdown"
  /\ \E closes \in BOOLEAN :
       harness' = [harness EXCEPT
                     !.server = "stopped",
                     !.channel = IF harness.async_channel /\ closes
                                 THEN "closed" ELSE @,
                     !.aio_thread = "ended"]
  /\ UNCHANGED <<serverVars, result, exceptions, inflight>>

\* aio_thread.join() returns when the thread has ended.
ThreadJoin ==
  /\ harness.pc = "join"
  /\ harness.aio_thread = "ended"
  /\ harness' = [harness EXCEPT !.pc = Leave(harness.raised)]
  /\ UNCHANGED <<serverVars, result, exceptions, inflight>>

NextHarness ==
  \/ StartServer
  \/ RunServer
  \/ WaitForServer
  \/ Connect
  \/ Body
  \/ Finally
  \/ Shutdown
  \/ ThreadJoin

\* Both threads keep running while they have something to do.
SpecHarness == InitHarness /\ [][NextHarness]_vars /\ WF_vars(NextHarness)

\* C39: every server (or asyncio server thread) that dummy_channel
\* started is eventually stopped and the channel closed, on every path:
\* normal exit, an exception in the body, and the rejection of the
\* arguments by dummy_channel itself.
C39_EventuallyStopped ==
  (harness.server = "running")
    ~> (harness.server = "stopped" /\ harness.channel = "closed")

\* With a synchronous client, whose arguments are never rejected, the
\* server is stopped and the channel closed whether the body raises or not.
SyncClientStopped ==
  (harness.server = "running" /\ ~harness.aio_client)
    ~> (harness.server = "stopped" /\ harness.channel = "closed"
        /\ harness.pc = Leave(harness.raised))

\* Whenever the arguments are accepted the server is stopped.
AcceptedStopped ==
  (harness.pc = "body") ~> (harness.server = "stopped")

====
